---- MODULE Spec2Model ----
(***************************************************************************)
(* Model of the St Pete Athletic pickleball queue system:                  *)
(*   QueueService.js  joinQueue, leaveQueue, determineRotation,            *)
(*                    processGameEnd, getConsecutiveWins                   *)
(*   index.js         the express handlers and GameService (createGame,    *)
(*                    endGame, storeGameMetrics)                           *)
(*   NotificationService  notifyNextPlayers, sendNotification              *)
(*   index.js         the onQueueUpdate trigger                            *)
(*   mobile app       joinQueue and leaveQueue of the Firestore queue      *)
(*                    service, on the facility's own queues collection     *)
(*                                                                         *)
(* Every await on the document store is one step of a request, so the      *)
(* steps of concurrent requests interleave.  db.runTransaction is modelled *)
(* with optimistic validation: the callback reads a snapshot, and the      *)
(* commit succeeds only if the documents it read are unchanged; otherwise  *)
(* the callback runs again.                                                *)
(***************************************************************************)
EXTENDS Integers, Sequences, FiniteSets, TLC

\* ---------------------------------------------------------------- bounds
NumPlayers == 3
NumReq == 2
MaxGames == 2
MaxMixedGames == 1
MaxClock == 1
MaxRotQueue == 9
MaxRotWins == 4
MaxLogs == 2
MaxMovePlayers == 7
MaxMoveLogs == 16
MaxWinGames == 4
MaxEndedAt == 2
MaxSamples == 4
MaxPosition == 4
MaxStreakGames == 3
MaxTwicePlayers == 6
MaxScheduled == 3

\* ------------------------------------------------------ program constants
ROTATION_THRESHOLD == 8
MAX_CONSECUTIVE_WINS == 3

Players == 1..NumPlayers
Req == 1..NumReq
QueueIds == {"q1", "q2"}
CourtIds == {"c1"}
GameIds == 1..MaxGames
\* the players of the end-to-end scenario, A..I
ScenarioPlayers == 1..9
\* everybody who joins a queue in some specification
Joiners == Players \cup ScenarioPlayers
\* the queues initializeFacility creates (two of the three skill levels)
FacilityQueueIds == {"beginner", "intermediate"}

\* Scores a client may send with PATCH /games/:gameId/end.
Scores == {<<11, 5>>, <<5, 11>>, <<9, 9>>}

\* Request bodies a client may send with POST /games.
GameInputs ==
  { [players |-> <<1, 2, 3, 4>>, team1 |-> <<1, 2>>, team2 |-> <<3, 4>>],
    [players |-> <<1, 2, 3>>,    team1 |-> <<1, 2>>, team2 |-> <<3, 4>>],
    [players |-> <<1, 2, 3, 4>>, team1 |-> <<1>>,    team2 |-> <<3, 4>>] }

\* Bodies with four players and two teams of two that are no partition of
\* the players: a player in both teams, a team member who does not play.
TeamInputs ==
  { [players |-> <<1, 2, 3, 4>>, team1 |-> <<1, 2>>, team2 |-> <<2, 3>>],
    [players |-> <<1, 2, 3, 4>>, team1 |-> <<1, 2>>, team2 |-> <<3, 5>>] }

\* ------------------------------------------------------------- JS helpers
Min(a, b) == IF a < b THEN a ELSE b

\* Array.prototype.slice(0, k)
Slice(s, k) == SubSeq(s, 1, Min(k, Len(s)))

\* Array.prototype.includes
Includes(s, x) == \E i \in 1..Len(s) : s[i] = x

\* players.map(p => p.playerId)
PlayerIds(players) == [i \in 1..Len(players) |-> players[i].playerId]

\* the check compares a field the entries do not have
AlreadyInQueue_WrongField(players, playerId) == FALSE

\* players.some(p => p.playerId === playerId)
AlreadyInQueue(players, playerId) ==
  \E i \in 1..Len(players) : players[i].playerId = playerId

\* players.findIndex(p => p.playerId === playerId); 0 stands for -1
FindIndex(players, playerId) ==
  IF \E i \in 1..Len(players) : players[i].playerId = playerId
  THEN CHOOSE i \in 1..Len(players) :
         /\ players[i].playerId = playerId
         /\ \A j \in 1..(i - 1) : players[j].playerId # playerId
  ELSE 0

\* the last entry is removed, whatever the index
Splice_Last(players, index) == SubSeq(players, 1, Len(players) - 1)

\* players.splice(index, 1)
Splice(players, index) ==
  [i \in 1..(Len(players) - 1) |->
     IF i < index THEN players[i] ELSE players[i + 1]]

\* the positions are not recalculated
Renumber_Keep(players) == players

\* players.map((p, idx) => ({ ...p, position: idx + 1 }))
Renumber(players) ==
  [i \in 1..Len(players) |-> [players[i] EXCEPT !.position = i]]

\* the element is put in front
ArrayUnion_Front(players, element) ==
  IF Includes(players, element) THEN players ELSE <<element>> \o players

\* FieldValue.arrayUnion(element): adds the element unless an equal one is there
ArrayUnion(players, element) ==
  IF Includes(players, element) THEN players ELSE Append(players, element)

\* joinQueue: the entry appended for a joining player
NewPlayer(players, playerId) ==
  [playerId |-> playerId, position |-> Len(players) + 1, notified |-> FALSE]

\* leaveQueue: the list written back after removing the player
LeavePlayers(players, playerId) ==
  Renumber(Splice(players, FindIndex(players, playerId)))

\* the read is made outside the transaction, so nothing is validated
TxCommitOk_Blind(snapshot, current) == TRUE

\* db.runTransaction: a commit is accepted only if what the callback read
\* is still what the store holds
TxCommitOk(snapshot, current) == snapshot = current

\* The history variable applies each committed transaction to the list in one
\* piece: a join puts the player last, a removal closes the gaps.
SerialJoin(list, playerId) ==
  list \o <<[playerId |-> playerId, position |-> Len(list) + 1,
             notified |-> FALSE]>>

SerialRemove(list, ids) ==
  LET kept == SelectSeq(list, LAMBDA e : e.playerId \notin ids)
  IN [i \in 1..Len(kept) |->
        [playerId |-> kept[i].playerId, position |-> i,
         notified |-> kept[i].notified]]

\* ------------------------------------------------------------------ state
VARIABLES
  queues,    \* queues collection: queue id -> players array (existing docs)
  serial,    \* history: the queues as built by the committed transactions,
             \* each applied in one piece at its commit (a write made
             \* outside a transaction starts the history afresh)
  games,     \* games collection: sequence of game documents, id = index
  courts,    \* courts collection: court id -> [status, currentGame]
  metrics,   \* gameMetrics collection: sequence of records
  rotated,   \* history: ids of the games whose rotation reached the queue
  now,       \* admin.firestore.Timestamp.now().seconds
  reqs,      \* the requests being served: slot -> handler state
  rotIn,     \* determineRotation on its own: arguments
  rotOut,    \* determineRotation on its own: result
  args,      \* another function called on its own: name and arguments
  result,    \* another function called on its own: what it returned
  facilityQueues,   \* mobile app: facilities/st-pete-athletic/queues,
                    \* queue id -> players array
  users,            \* mobile app: users collection, uid -> document
  app,              \* mobile app: state of the App component on one phone
  delivered,        \* onQueueUpdate: the version of each queue document the
                    \* trigger has been called for last
  notificationLogs, \* notificationLogs collection: player -> type -> the
                    \* number of records with that playerId and type
  memberSince       \* history: player -> what notificationLogs held for the
                    \* player when the player's last join committed

vars == <<queues, serial, games, courts, metrics, rotated, now, reqs,
          rotIn, rotOut, args, result, facilityQueues, users, delivered,
          notificationLogs, memberSince, app>>

NoGame == [courtId |-> "", queueId |-> "", players |-> <<>>,
           team1 |-> <<>>, team2 |-> <<>>, startedAt |-> 0, endedAt |-> -1,
           duration |-> -1, score |-> <<>>, winner |-> "", status |-> "none"]

NoRotation == [rotationType |-> "NONE", playersOff |-> <<>>,
               playersStay |-> <<>>, reason |-> "", nextUp |-> <<>>]

NoResp == [kind |-> "none", error |-> "", position |-> 0,
           rotation |-> NoRotation, updatedQueueLength |-> -1]

NoInput == [players |-> <<>>, team1 |-> <<>>, team2 |-> <<>>]

Idle == [pc |-> "idle", op |-> "none", queueId |-> "", courtId |-> "",
         playerId |-> 0, gameId |-> 0, score |-> <<0, 0>>, input |-> NoInput,
         snapExists |-> FALSE, snapQ |-> <<>>, snapG |-> NoGame,
         t |-> 0, wins |-> 0, rotation |-> NoRotation, resp |-> NoResp,
         webhook |-> "", committed |-> FALSE, retried |-> FALSE]

ErrorResp(msg) == [NoResp EXCEPT !.kind = "error", !.error = msg]

\* res.status(400).json({ error }) / res.json(result): the handler is over
Done(r, resp) == [Idle EXCEPT !.pc = "done", !.op = reqs[r].op, !.resp = resp]

\* emitWebhook(event, data, facilityId), then the response: the request
\* record keeps the event the handler emitted and (history) whether its
\* transaction had committed
Emitted(r, event, resp) ==
  [Done(r, resp) EXCEPT !.webhook = event, !.committed = reqs[r].committed]

\* the retried attempt emits an event
TxRetry_Emitting(req, pc) ==
  [req EXCEPT !.pc = pc, !.snapQ = <<>>, !.retried = TRUE,
              !.webhook = "retry"]

\* db.runTransaction: the commit found a document changed since it was
\* read, and the update function is run again from its first read (retried
\* marks the abandoned attempt until that read)
TxRetry(req, pc) == [req EXCEPT !.pc = pc, !.snapQ = <<>>, !.retried = TRUE]

\* a slot takes a new request once it has answered the previous one; the
\* answered request stays visible until then
Free(r) == reqs[r].pc \in {"idle", "done"}

\* notificationLogs: no record for a player
NoLogs == [NEXT_UP |-> 0, APPROACHING |-> 0]

\* users/{uid} is first written when the app stores the user's push token,
\* which it skips without a token: the last user has no document yet
HasUserDoc(u) == u # NumPlayers

\* users/{uid}.currentQueue: null
NoQueue == [queueId |-> "", position |-> 0]

NoRotIn == [winningTeam |-> <<>>, losingTeam |-> <<>>,
            winnerConsecutiveWins |-> 0, queuePlayers |-> <<>>]

\* App component as first rendered: nobody signed in, useState(null) for
\* lastNotifiedPosition (0 stands for null), userQueue.inQueue false, no
\* queue subscription; scheduled counts the scheduleLocalNotification calls
\* for a position, seen is the snapshot the subscription delivered last
NoApp ==
  [user |-> 0, lastNotifiedPosition |-> 0, inQueue |-> FALSE, position |-> 0,
   subscribed |-> FALSE,
   closure |-> [lastNotifiedPosition |-> 0, inQueue |-> FALSE],
   scheduled |-> [p \in {1, 2} |-> 0],
   seen |-> [q \in FacilityQueueIds |-> <<[uid |-> 0, position |-> 0]>>]]

\* every collection but games, with empty queue documents of the given ids
InitWith(ids) ==
  /\ queues = [q \in ids |-> <<>>]
  /\ serial = queues
  /\ courts = [c \in CourtIds |-> [status |-> "available", currentGame |-> 0]]
  /\ metrics = <<>>
  /\ rotated = {}
  /\ now = 0
  /\ reqs = [r \in Req |-> Idle]
  /\ facilityQueues = [q \in FacilityQueueIds |-> <<>>]
  /\ users = [u \in Players |->
                [exists |-> HasUserDoc(u), currentQueue |-> NoQueue]]
  /\ app = NoApp
  /\ delivered = queues
  /\ notificationLogs = [p \in Joiners |-> NoLogs]
  /\ memberSince = [p \in Joiners |-> NoLogs]

\* one queue document
InitRest == InitWith({"q1"})

InitStore == InitRest /\ games = <<>>

\* no function is called on its own
NoArgs == [fn |-> "none"]
NoResult == [fn |-> "none"]

Init ==
  /\ InitStore
  /\ rotIn = NoRotIn
  /\ rotOut = NoRotation
  /\ args = NoArgs
  /\ result = NoResult

\* the write reaches every queue document
WriteQueue_All(q, players) == [id \in DOMAIN queues |-> players]

\* queueRef.update({ players }) / transaction.update(queueRef, { players })
WriteQueue(q, players) == [queues EXCEPT ![q] = players]

StoreUnchanged == UNCHANGED <<queues, serial, games, courts, metrics, rotated>>
RotUnchanged == UNCHANGED <<rotIn, rotOut, args, result>>
AppUnchanged == UNCHANGED <<facilityQueues, users, app>>
TriggerUnchanged == UNCHANGED <<delivered, notificationLogs, memberSince>>
\* what no server handler writes
ElseUnchanged == RotUnchanged /\ AppUnchanged /\ TriggerUnchanged

\* ------------------------------------------- POST /queues/:queueId/join
StartJoin(r, q, p) ==
  /\ Free(r)
  /\ reqs' = [reqs EXCEPT ![r] =
       [Idle EXCEPT !.pc = "j_read", !.op = "join", !.queueId = q,
                    !.playerId = p]]
  /\ StoreUnchanged /\ ElseUnchanged /\ UNCHANGED now

\* transaction.get(queueRef) and the checks that follow it
JoinRead(r) ==
  /\ reqs[r].pc = "j_read"
  /\ LET q == reqs[r].queueId IN
     reqs' = [reqs EXCEPT ![r] =
       IF q \notin DOMAIN queues
       THEN Done(r, ErrorResp("Queue not found"))
       ELSE IF AlreadyInQueue(queues[q], reqs[r].playerId)
       THEN Done(r, ErrorResp("Player already in queue"))
       ELSE [reqs[r] EXCEPT !.pc = "j_commit", !.snapQ = queues[q],
                            !.retried = FALSE]]
  /\ StoreUnchanged /\ ElseUnchanged /\ UNCHANGED now

\* transaction.update(queueRef, { players: arrayUnion(newPlayer) }) commits
JoinCommit(r) ==
  /\ reqs[r].pc = "j_commit"
  /\ LET q == reqs[r].queueId
         element == NewPlayer(reqs[r].snapQ, reqs[r].playerId) IN
     IF TxCommitOk(reqs[r].snapQ, queues[q])
     THEN /\ queues' = WriteQueue(q, ArrayUnion(queues[q], element))
          /\ serial' = [serial EXCEPT ![q] =
               SerialJoin(serial[q], reqs[r].playerId)]
          /\ memberSince' = [memberSince EXCEPT ![reqs[r].playerId] =
               notificationLogs[reqs[r].playerId]]
          /\ reqs' = [reqs EXCEPT ![r] =
               [reqs[r] EXCEPT !.pc = "j_emit", !.committed = TRUE,
                               !.resp = [NoResp EXCEPT !.kind = "ok",
                                           !.position = element.position]]]
     ELSE /\ reqs' = [reqs EXCEPT ![r] =
               TxRetry(reqs[r], "j_read")]
          /\ UNCHANGED <<queues, serial, memberSince>>
  /\ UNCHANGED <<games, courts, metrics, rotated, now>>
  /\ RotUnchanged /\ AppUnchanged /\ UNCHANGED <<delivered, notificationLogs>>

\* emitWebhook, predictWaitTime, res.json
JoinEmit(r) ==
  /\ reqs[r].pc = "j_emit"
  /\ reqs' = [reqs EXCEPT ![r] =
       Emitted(r, "queue.player_joined", reqs[r].resp)]
  /\ StoreUnchanged /\ ElseUnchanged /\ UNCHANGED now

\* ----------------------------------------- DELETE /queues/:queueId/leave
StartLeave(r, q, p) ==
  /\ Free(r)
  /\ reqs' = [reqs EXCEPT ![r] =
       [Idle EXCEPT !.pc = "l_read", !.op = "leave", !.queueId = q,
                    !.playerId = p]]
  /\ StoreUnchanged /\ ElseUnchanged /\ UNCHANGED now

LeaveRead(r) ==
  /\ reqs[r].pc = "l_read"
  /\ LET q == reqs[r].queueId IN
     reqs' = [reqs EXCEPT ![r] =
       IF q \notin DOMAIN queues
       THEN Done(r, ErrorResp("Queue not found"))
       ELSE IF FindIndex(queues[q], reqs[r].playerId) = 0
       THEN Done(r, ErrorResp("Player not in queue"))
       ELSE [reqs[r] EXCEPT !.pc = "l_commit", !.snapQ = queues[q],
                            !.retried = FALSE]]
  /\ StoreUnchanged /\ ElseUnchanged /\ UNCHANGED now

LeaveCommit(r) ==
  /\ reqs[r].pc = "l_commit"
  /\ LET q == reqs[r].queueId IN
     IF TxCommitOk(reqs[r].snapQ, queues[q])
     THEN /\ queues' = WriteQueue(q,
               LeavePlayers(reqs[r].snapQ, reqs[r].playerId))
          /\ serial' = [serial EXCEPT ![q] =
               SerialRemove(serial[q], {reqs[r].playerId})]
          /\ reqs' = [reqs EXCEPT ![r] =
               [reqs[r] EXCEPT !.pc = "l_emit", !.committed = TRUE,
                               !.resp = [NoResp EXCEPT !.kind = "ok"]]]
     ELSE /\ reqs' = [reqs EXCEPT ![r] =
               TxRetry(reqs[r], "l_read")]
          /\ UNCHANGED <<queues, serial>>
  /\ UNCHANGED <<games, courts, metrics, rotated, now>> /\ ElseUnchanged

LeaveEmit(r) ==
  /\ reqs[r].pc = "l_emit"
  /\ reqs' = [reqs EXCEPT ![r] =
       Emitted(r, "queue.player_left", reqs[r].resp)]
  /\ StoreUnchanged /\ ElseUnchanged /\ UNCHANGED now

\* ------------------------------------------------------------ POST /games
\* only the number of players is checked
CreateGameError_PlayersOnly(input) ==
  IF Len(input.players) # 4 THEN "Game requires exactly 4 players" ELSE ""

\* the checks createGame makes before its first write
CreateGameError(input) ==
  IF Len(input.players) # 4 THEN "Game requires exactly 4 players"
  ELSE IF Len(input.team1) # 2 \/ Len(input.team2) # 2
       THEN "Invalid team configuration"
       ELSE ""

\* requests that are between validation and db.collection('games').add
PendingAdds == Cardinality({r \in Req : reqs[r].pc = "c_add"})

StartCreate(r, c, q, input, limit) ==
  /\ Free(r)
  /\ Len(games) + PendingAdds < limit
  /\ reqs' = [reqs EXCEPT ![r] =
       LET req == [Idle EXCEPT !.op = "create", !.courtId = c, !.queueId = q,
                               !.input = input] IN
       IF CreateGameError(input) # ""
       THEN [Idle EXCEPT !.pc = "done", !.op = "create", !.input = input,
                         !.resp = ErrorResp(CreateGameError(input))]
       ELSE [req EXCEPT !.pc = "c_add"]]
  /\ StoreUnchanged /\ ElseUnchanged /\ UNCHANGED now

\* the document createGame adds
GameData(c, q, input, startedAt) ==
  [courtId |-> c, queueId |-> q, players |-> input.players,
   team1 |-> input.team1, team2 |-> input.team2, startedAt |-> startedAt,
   endedAt |-> -1, duration |-> -1, score |-> <<>>, winner |-> "",
   status |-> "in_progress"]

\* db.collection('games').add(gameData)
CreateAdd(r) ==
  /\ reqs[r].pc = "c_add"
  /\ games' = Append(games, GameData(reqs[r].courtId, reqs[r].queueId,
                                     reqs[r].input, now))
  /\ reqs' = [reqs EXCEPT ![r] =
       [reqs[r] EXCEPT !.pc = "c_court", !.gameId = Len(games) + 1]]
  /\ UNCHANGED <<queues, serial, courts, metrics, rotated, now>> /\ ElseUnchanged

\* db.collection('courts').doc(courtId).update({ status: 'in_game', ... })
CreateCourt(r) ==
  /\ reqs[r].pc = "c_court"
  /\ courts' = [courts EXCEPT ![reqs[r].courtId] =
       [status |-> "in_game", currentGame |-> reqs[r].gameId]]
  /\ reqs' = [reqs EXCEPT ![r] = [reqs[r] EXCEPT !.pc = "c_emit"]]
  /\ UNCHANGED <<queues, serial, games, metrics, rotated, now>> /\ ElseUnchanged

\* emitWebhook, res.json(game)
CreateEmit(r) ==
  /\ reqs[r].pc = "c_emit"
  /\ reqs' = [reqs EXCEPT ![r] =
       Emitted(r, "game.started", [NoResp EXCEPT !.kind = "ok"])]
  /\ StoreUnchanged /\ ElseUnchanged /\ UNCHANGED now

\* ------------------------------------------------- rotation (pure part)
\* the threshold compared with > instead of >=
determineRotation_Strict(gameResult, queuePlayers) ==
  LET queueLength == Len(queuePlayers)
      winnersExceededLimit ==
        gameResult.winnerConsecutiveWins >= MAX_CONSECUTIVE_WINS
  IN IF queueLength > ROTATION_THRESHOLD \/ winnersExceededLimit
     THEN [rotationType |-> "FULL",
           playersOff |-> gameResult.winningTeam \o gameResult.losingTeam,
           playersStay |-> <<>>,
           reason |-> IF winnersExceededLimit THEN "consecutive_win_limit"
                      ELSE "high_demand",
           nextUp |-> PlayerIds(Slice(queuePlayers, 4))]
     ELSE [rotationType |-> "PARTIAL",
           playersOff |-> gameResult.losingTeam,
           playersStay |-> gameResult.winningTeam,
           reason |-> "normal_play",
           nextUp |-> PlayerIds(Slice(queuePlayers, 2))]

\* the reason decided by the queue length first
determineRotation_DemandFirst(gameResult, queuePlayers) ==
  LET queueLength == Len(queuePlayers)
      winnersExceededLimit ==
        gameResult.winnerConsecutiveWins >= MAX_CONSECUTIVE_WINS
  IN IF queueLength >= ROTATION_THRESHOLD \/ winnersExceededLimit
     THEN [rotationType |-> "FULL",
           playersOff |-> gameResult.winningTeam \o gameResult.losingTeam,
           playersStay |-> <<>>,
           reason |-> IF queueLength >= ROTATION_THRESHOLD THEN "high_demand"
                      ELSE "consecutive_win_limit",
           nextUp |-> PlayerIds(Slice(queuePlayers, 4))]
     ELSE [rotationType |-> "PARTIAL",
           playersOff |-> gameResult.losingTeam,
           playersStay |-> gameResult.winningTeam,
           reason |-> "normal_play",
           nextUp |-> PlayerIds(Slice(queuePlayers, 2))]

\* a full rotation that calls up two players only
determineRotation_NextTwo(gameResult, queuePlayers) ==
  LET queueLength == Len(queuePlayers)
      winnersExceededLimit ==
        gameResult.winnerConsecutiveWins >= MAX_CONSECUTIVE_WINS
  IN IF queueLength >= ROTATION_THRESHOLD \/ winnersExceededLimit
     THEN [rotationType |-> "FULL",
           playersOff |-> gameResult.winningTeam \o gameResult.losingTeam,
           playersStay |-> <<>>,
           reason |-> IF winnersExceededLimit THEN "consecutive_win_limit"
                      ELSE "high_demand",
           nextUp |-> PlayerIds(Slice(queuePlayers, 2))]
     ELSE [rotationType |-> "PARTIAL",
           playersOff |-> gameResult.losingTeam,
           playersStay |-> gameResult.winningTeam,
           reason |-> "normal_play",
           nextUp |-> PlayerIds(Slice(queuePlayers, 2))]

\* determineRotation(gameResult, queuePlayers)
determineRotation(gameResult, queuePlayers) ==
  LET queueLength == Len(queuePlayers)
      winnersExceededLimit ==
        gameResult.winnerConsecutiveWins >= MAX_CONSECUTIVE_WINS
  IN IF queueLength >= ROTATION_THRESHOLD \/ winnersExceededLimit
     THEN [rotationType |-> "FULL",
           playersOff |-> gameResult.winningTeam \o gameResult.losingTeam,
           playersStay |-> <<>>,
           reason |-> IF winnersExceededLimit THEN "consecutive_win_limit"
                      ELSE "high_demand",
           nextUp |-> PlayerIds(Slice(queuePlayers, 4))]
     ELSE [rotationType |-> "PARTIAL",
           playersOff |-> gameResult.losingTeam,
           playersStay |-> gameResult.winningTeam,
           reason |-> "normal_play",
           nextUp |-> PlayerIds(Slice(queuePlayers, 2))]

\* gameData.teams[key]
Team(game, key) == IF key = "team1" THEN game.team1 ELSE game.team2

\* result.team1Score > result.team2Score ? 'team1' : 'team2'
WinnerKey(score) == IF score[1] > score[2] THEN "team1" ELSE "team2"
OtherKey(key) == IF key = "team1" THEN "team2" ELSE "team1"

\* the newest of a set of completed games: orderBy('endedAt', 'desc'), equal
\* endedAt ordered by document id
Newest(all, S) ==
  CHOOSE g \in S : \A h \in S :
    \/ all[h].endedAt < all[g].endedAt
    \/ all[h].endedAt = all[g].endedAt /\ h <= g

RECURSIVE OrderByEndedAtDesc(_, _)
OrderByEndedAtDesc(all, S) ==
  IF S = {} THEN <<>>
  ELSE <<Newest(all, S)>> \o OrderByEndedAtDesc(all, S \ {Newest(all, S)})

\* where courtId == .. where status == 'completed' .. limit(MAX_CONSECUTIVE_WINS)
RecentGames(all, courtId) ==
  Slice(OrderByEndedAtDesc(all,
          {g \in 1..Len(all) : all[g].courtId = courtId
                               /\ all[g].status = "completed"}),
        MAX_CONSECUTIVE_WINS)

\* playerIds.every(id => winners.includes(id))
SameWinners(game, playerIds) ==
  \A i \in 1..Len(playerIds) : Includes(Team(game, game.winner), playerIds[i])

RECURSIVE CountWins(_, _, _)
CountWins(all, docs, playerIds) ==
  IF docs = <<>> THEN 0
  ELSE IF SameWinners(all[Head(docs)], playerIds)
       THEN 1 + CountWins(all, Tail(docs), playerIds)
       ELSE 0

\* getConsecutiveWins(playerIds, courtId)
getConsecutiveWins(all, playerIds, courtId) ==
  CountWins(all, RecentGames(all, courtId), playerIds)

\* the players called up are taken out by their position in the list
RotatePlayers_ByPosition(players, nextUp) ==
  Renumber(SelectSeq(players, LAMBDA e : ~Includes(nextUp, e.position)))

\* processGameEnd: the list written back after taking nextUp out
RotatePlayers(players, nextUp) ==
  Renumber(SelectSeq(players, LAMBDA e : ~Includes(nextUp, e.playerId)))

\* the fields a game document gets when it is completed
Completed(game, endedAt, score) ==
  [game EXCEPT !.endedAt = endedAt, !.duration = endedAt - game.startedAt,
               !.score = score, !.winner = WinnerKey(score),
               !.status = "completed"]

\* ------------------------------------------- PATCH /games/:gameId/end
StartEnd(r, g, score) ==
  /\ Free(r)
  /\ reqs' = [reqs EXCEPT ![r] =
       [Idle EXCEPT !.pc = "e_get", !.op = "end", !.gameId = g,
                    !.score = score]]
  /\ StoreUnchanged /\ ElseUnchanged /\ UNCHANGED now

\* the status of the game is not looked at
EndGet_NoStatusCheck(r) ==
  /\ reqs[r].pc = "e_get"
  /\ LET g == reqs[r].gameId IN
     reqs' = [reqs EXCEPT ![r] =
       IF g > Len(games)
       THEN Done(r, ErrorResp("Game not found"))
       ELSE [reqs[r] EXCEPT !.pc = "e_update", !.snapG = games[g]]]
  /\ StoreUnchanged /\ ElseUnchanged /\ UNCHANGED now

\* endGame: gameRef.get() and the checks on it
EndGet(r) ==
  /\ reqs[r].pc = "e_get"
  /\ LET g == reqs[r].gameId IN
     reqs' = [reqs EXCEPT ![r] =
       IF g > Len(games)
       THEN Done(r, ErrorResp("Game not found"))
       ELSE IF games[g].status = "completed"
       THEN Done(r, ErrorResp("Game already ended"))
       ELSE [reqs[r] EXCEPT !.pc = "e_update", !.snapG = games[g]]]
  /\ StoreUnchanged /\ ElseUnchanged /\ UNCHANGED now

\* endGame: gameRef.update({ endedAt, duration, score, winner, status })
EndUpdate(r) ==
  /\ reqs[r].pc = "e_update"
  /\ LET g == reqs[r].gameId
         done == Completed(reqs[r].snapG, now, reqs[r].score) IN
     /\ games' = [games EXCEPT ![g] =
          [@ EXCEPT !.endedAt = done.endedAt, !.duration = done.duration,
                    !.score = done.score, !.winner = done.winner,
                    !.status = done.status]]
     /\ reqs' = [reqs EXCEPT ![r] = [reqs[r] EXCEPT !.pc = "e_court", !.t = now]]
  /\ UNCHANGED <<queues, serial, courts, metrics, rotated, now>> /\ ElseUnchanged

\* endGame: courts.doc(gameData.courtId).update({ status: 'available', ... })
EndCourt(r) ==
  /\ reqs[r].pc = "e_court"
  /\ courts' = [courts EXCEPT ![reqs[r].snapG.courtId] =
       [status |-> "available", currentGame |-> 0]]
  /\ reqs' = [reqs EXCEPT ![r] = [reqs[r] EXCEPT !.pc = "e_metric"]]
  /\ UNCHANGED <<queues, serial, games, metrics, rotated, now>> /\ ElseUnchanged

\* endGame: storeGameMetrics; then getGame, whose courtId and queueId never
\* change once the game exists
EndMetric(r) ==
  /\ reqs[r].pc = "e_metric"
  /\ metrics' = Append(metrics,
       [gameId |-> reqs[r].gameId,
        duration |-> reqs[r].t - reqs[r].snapG.startedAt,
        courtId |-> reqs[r].snapG.courtId])
  /\ reqs' = [reqs EXCEPT ![r] =
       [reqs[r] EXCEPT !.pc = "p_read", !.snapG = NoGame, !.t = 0]]
  /\ UNCHANGED <<queues, serial, games, courts, rotated, now>> /\ ElseUnchanged

\* processGameEnd: transaction.get(gameRef), transaction.get(queueRef),
\* Timestamp.now()
ProcRead(r) ==
  /\ reqs[r].pc = "p_read"
  /\ LET g == reqs[r].gameId
         q == games[g].queueId IN
     reqs' = [reqs EXCEPT ![r] =
       [reqs[r] EXCEPT !.pc = "p_wins", !.snapG = games[g], !.queueId = q,
                       !.retried = FALSE,
                       !.snapExists = q \in DOMAIN queues,
                       !.snapQ = IF q \in DOMAIN queues THEN queues[q] ELSE <<>>,
                       !.t = now]]
  /\ StoreUnchanged /\ ElseUnchanged /\ UNCHANGED now

\* processGameEnd: the gameResult handed to determineRotation
GameResult(game, score, wins) ==
  [winningTeam |-> Team(game, WinnerKey(score)),
   losingTeam |-> Team(game, OtherKey(WinnerKey(score))),
   winnerConsecutiveWins |-> wins]

\* processGameEnd: getConsecutiveWins (a query outside the transaction),
\* then determineRotation; queueData is undefined when the queue is missing
ProcWins(r) ==
  /\ reqs[r].pc = "p_wins"
  /\ LET wins == getConsecutiveWins(games,
                   Team(reqs[r].snapG, WinnerKey(reqs[r].score)),
                   reqs[r].snapG.courtId) IN
     reqs' = [reqs EXCEPT ![r] =
       IF ~reqs[r].snapExists
       THEN Done(r, ErrorResp("Cannot read properties of undefined"))
       ELSE [reqs[r] EXCEPT !.pc = "p_commit", !.wins = wins,
               !.rotation = determineRotation(
                  GameResult(reqs[r].snapG, reqs[r].score, wins),
                  reqs[r].snapQ)]]
  /\ StoreUnchanged /\ ElseUnchanged /\ UNCHANGED now

\* processGameEnd: the two transaction.update calls commit together
ProcCommit(r) ==
  /\ reqs[r].pc = "p_commit"
  /\ LET g == reqs[r].gameId
         q == reqs[r].queueId
         done == Completed(reqs[r].snapG, reqs[r].t, reqs[r].score)
         updatedPlayers == RotatePlayers(reqs[r].snapQ, reqs[r].rotation.nextUp)
     IN
     IF TxCommitOk(<<reqs[r].snapG, reqs[r].snapQ>>, <<games[g], queues[q]>>)
     THEN /\ games' = [games EXCEPT ![g] =
               [@ EXCEPT !.endedAt = done.endedAt, !.duration = done.duration,
                         !.score = done.score, !.winner = done.winner,
                         !.status = done.status]]
          /\ queues' = WriteQueue(q, updatedPlayers)
          /\ serial' = [serial EXCEPT ![q] =
               SerialRemove(serial[q],
                 {serial[q][i].playerId :
                    i \in 1..Min(IF reqs[r].rotation.rotationType = "FULL"
                                 THEN 4 ELSE 2, Len(serial[q]))})]
          /\ rotated' = rotated \cup {g}
          /\ reqs' = [reqs EXCEPT ![r] =
               [reqs[r] EXCEPT !.pc = "n_read", !.snapG = NoGame,
                               !.snapQ = <<>>, !.t = 0, !.committed = TRUE,
                               !.resp = [NoResp EXCEPT !.kind = "ok",
                                  !.rotation = reqs[r].rotation,
                                  !.updatedQueueLength = Len(updatedPlayers)]]]
     ELSE /\ reqs' = [reqs EXCEPT ![r] =
               [TxRetry(reqs[r], "p_read") EXCEPT
                  !.snapG = NoGame, !.t = 0, !.wins = 0,
                  !.rotation = NoRotation]]
          /\ UNCHANGED <<queues, serial, games, rotated>>
  /\ UNCHANGED <<courts, metrics, now>> /\ ElseUnchanged

\* notifyNextPlayers: db.collection('queues').doc(queueId).get()
NotifyRead(r) ==
  /\ reqs[r].pc = "n_read"
  /\ reqs' = [reqs EXCEPT ![r] =
       [reqs[r] EXCEPT !.pc = "n_write", !.snapQ = queues[reqs[r].queueId]]]
  /\ StoreUnchanged /\ ElseUnchanged /\ UNCHANGED now

\* notifyNextPlayers: players[i].notified = true for i < Math.min(4, length)
MarkNotified(players) ==
  [i \in 1..Len(players) |->
     IF i <= Min(4, Len(players)) THEN [players[i] EXCEPT !.notified = TRUE]
     ELSE players[i]]

\* sendNotification: the record added to notificationLogs (every player has
\* a players/{playerId} document, so no notification is dropped)
LogRecord(playerId, type) == [playerId |-> playerId, type |-> type]

\* db.collection('notificationLogs').add, once for each record of a list
AddLogs(logs, records) ==
  [p \in DOMAIN logs |->
     [type \in DOMAIN logs[p] |->
        logs[p][type]
          + Cardinality({i \in 1..Len(records) :
                           records[i] = LogRecord(p, type)})]]

\* notifyNextPlayers: the notifications of the loop, i < 2 ? 'NEXT_UP' :
\* 'APPROACHING' for the first Math.min(4, length) players
NextPlayersLogs(players) ==
  [i \in 1..Min(4, Len(players)) |->
     LogRecord(players[i].playerId,
               IF i <= 2 THEN "NEXT_UP" ELSE "APPROACHING")]

\* notifyNextPlayers: the sendNotification calls of the loop, then
\* db.collection('queues').doc(queueId).update({ players })
NotifyWrite(r) ==
  /\ reqs[r].pc = "n_write"
  /\ LET q == reqs[r].queueId IN
     /\ queues' = WriteQueue(q, MarkNotified(reqs[r].snapQ))
     /\ serial' = queues'
  /\ notificationLogs' = AddLogs(notificationLogs,
                                 NextPlayersLogs(reqs[r].snapQ))
  /\ reqs' = [reqs EXCEPT ![r] =
       [reqs[r] EXCEPT !.pc = "e_emit", !.snapQ = <<>>]]
  /\ UNCHANGED <<games, courts, metrics, rotated, now>>
  /\ RotUnchanged /\ AppUnchanged /\ UNCHANGED <<delivered, memberSince>>

\* ------------------------------------------------ onQueueUpdate (trigger)
\* the players of the new version who were in the old one, stand at position
\* 4 or better and are not marked notified
ToNotify(before, after) ==
  SelectSeq(after, LAMBDA player :
    /\ \E i \in 1..Len(before) : before[i].playerId = player.playerId
    /\ player.position <= 4
    /\ ~player.notified)

\* player.position <= 2 ? 'NEXT_UP' : 'APPROACHING'
UpdateLogs(before, after) ==
  [i \in 1..Len(ToNotify(before, after)) |->
     LogRecord(ToNotify(before, after)[i].playerId,
               IF ToNotify(before, after)[i].position <= 2
               THEN "NEXT_UP" ELSE "APPROACHING")]

\* functions.firestore.document('queues/{queueId}').onUpdate: called with the
\* version of the document before the change and the version after it
\* (maxLogs bounds the number of notifications of one type to one player)
QueueUpdate(q, maxLogs) ==
  /\ queues[q] # delivered[q]
  /\ notificationLogs' =
       AddLogs(notificationLogs, UpdateLogs(delivered[q], queues[q]))
  /\ \A p \in DOMAIN notificationLogs :
       \A type \in DOMAIN notificationLogs[p] :
         notificationLogs'[p][type] <= maxLogs
  /\ delivered' = [delivered EXCEPT ![q] = queues[q]]
  /\ UNCHANGED <<reqs, now, memberSince>>
  /\ StoreUnchanged /\ RotUnchanged /\ AppUnchanged

onQueueUpdate(q) == QueueUpdate(q, MaxLogs)

\* emitWebhook, res.json({ ...result, rotation })
EndEmit(r) ==
  /\ reqs[r].pc = "e_emit"
  /\ reqs' = [reqs EXCEPT ![r] = Emitted(r, "game.ended", reqs[r].resp)]
  /\ StoreUnchanged /\ ElseUnchanged /\ UNCHANGED now

\* time passes
Tick ==
  /\ now < MaxClock
  /\ now' = now + 1
  /\ UNCHANGED reqs /\ StoreUnchanged /\ ElseUnchanged

JoinHandler(r, ids) ==
  \/ \E q \in ids, p \in Players : StartJoin(r, q, p)
  \/ JoinRead(r)
  \/ JoinCommit(r)
  \/ JoinEmit(r)

LeaveHandler(r, ids) ==
  \/ \E q \in ids, p \in Players : StartLeave(r, q, p)
  \/ LeaveRead(r)
  \/ LeaveCommit(r)
  \/ LeaveEmit(r)

CreateFrom(r, limit, inputs) ==
  \/ \E c \in CourtIds, q \in QueueIds, input \in inputs :
        StartCreate(r, c, q, input, limit)
  \/ CreateAdd(r)
  \/ CreateCourt(r)
  \/ CreateEmit(r)

CreateHandler(r, limit) == CreateFrom(r, limit, GameInputs)

EndHandler(r) ==
  \/ \E g \in GameIds, score \in Scores : StartEnd(r, g, score)
  \/ EndGet(r)
  \/ EndUpdate(r)
  \/ EndCourt(r)
  \/ EndMetric(r)
  \/ ProcRead(r)
  \/ ProcWins(r)
  \/ ProcCommit(r)
  \/ NotifyRead(r)
  \/ NotifyWrite(r)
  \/ EndEmit(r)

\* ----------------------------------- mobile app: Firestore queue service
\* what no call of the mobile queue service writes
ServerUnchanged ==
  StoreUnchanged /\ UNCHANGED now /\ RotUnchanged /\ TriggerUnchanged

\* players.some(p => p.uid === user.uid)
InThisQueue(players, uid) == \E i \in 1..Len(players) : players[i].uid = uid

\* joinQueue: newPlayer (name and joinedAt play no part)
AppNewPlayer(players, uid) == [uid |-> uid, position |-> Len(players) + 1]

\* leaveQueue: players.filter(p => p.uid !== userId)
\*                    .map((p, index) => ({ ...p, position: index + 1 }))
AppLeavePlayers(players, userId) ==
  Renumber(SelectSeq(players, LAMBDA e : e.uid # userId))

\* joinQueue(queueId, user) is called
StartAppJoin(r, q, u) ==
  /\ Free(r)
  /\ reqs' = [reqs EXCEPT ![r] =
       [Idle EXCEPT !.pc = "aj_read", !.op = "appJoin", !.queueId = q,
                    !.playerId = u]]
  /\ AppUnchanged /\ ServerUnchanged

\* joinQueue: transaction.get(queueRef) and the checks that follow it
AppJoinRead(r) ==
  /\ reqs[r].pc = "aj_read"
  /\ LET q == reqs[r].queueId IN
     reqs' = [reqs EXCEPT ![r] =
       IF q \notin DOMAIN facilityQueues
       THEN Done(r, ErrorResp("Queue not found"))
       ELSE IF InThisQueue(facilityQueues[q], reqs[r].playerId)
       THEN Done(r, ErrorResp("Already in this queue"))
       ELSE [reqs[r] EXCEPT !.pc = "aj_commit", !.snapQ = facilityQueues[q]]]
  /\ AppUnchanged /\ ServerUnchanged

\* joinQueue: transaction.update(queueRef, ..) and transaction.set(userRef,
\* .., { merge: true }) commit together; the call returns newPlayer
AppJoinCommit(r) ==
  /\ reqs[r].pc = "aj_commit"
  /\ LET q == reqs[r].queueId
         u == reqs[r].playerId
         newPlayer == AppNewPlayer(reqs[r].snapQ, u) IN
     IF TxCommitOk(reqs[r].snapQ, facilityQueues[q])
     THEN /\ facilityQueues' = [facilityQueues EXCEPT ![q] =
               reqs[r].snapQ \o <<newPlayer>>]
          /\ users' = [users EXCEPT ![u] =
               [exists |-> TRUE,
                currentQueue |-> [queueId |-> q,
                                  position |-> newPlayer.position]]]
          /\ reqs' = [reqs EXCEPT ![r] =
               Done(r, [NoResp EXCEPT !.kind = "ok",
                                      !.position = newPlayer.position])]
          /\ UNCHANGED app
     ELSE /\ reqs' = [reqs EXCEPT ![r] =
               [reqs[r] EXCEPT !.pc = "aj_read", !.snapQ = <<>>]]
          /\ AppUnchanged
  /\ ServerUnchanged

\* leaveQueue(queueId, userId) is called
StartAppLeave(r, q, u) ==
  /\ Free(r)
  /\ reqs' = [reqs EXCEPT ![r] =
       [Idle EXCEPT !.pc = "al_read", !.op = "appLeave", !.queueId = q,
                    !.playerId = u]]
  /\ AppUnchanged /\ ServerUnchanged

\* leaveQueue: transaction.get(queueRef)
AppLeaveRead(r) ==
  /\ reqs[r].pc = "al_read"
  /\ LET q == reqs[r].queueId IN
     reqs' = [reqs EXCEPT ![r] =
       IF q \notin DOMAIN facilityQueues
       THEN Done(r, ErrorResp("Queue not found"))
       ELSE [reqs[r] EXCEPT !.pc = "al_commit", !.snapQ = facilityQueues[q]]]
  /\ AppUnchanged /\ ServerUnchanged

\* leaveQueue: transaction.update(queueRef, ..) and transaction.update(userRef,
\* ..) commit together (update fails when the user document does not exist);
\* the call returns true
AppLeaveCommit(r) ==
  /\ reqs[r].pc = "al_commit"
  /\ LET q == reqs[r].queueId
         u == reqs[r].playerId IN
     IF ~TxCommitOk(reqs[r].snapQ, facilityQueues[q])
     THEN /\ reqs' = [reqs EXCEPT ![r] =
               [reqs[r] EXCEPT !.pc = "al_read", !.snapQ = <<>>]]
          /\ AppUnchanged
     ELSE IF ~users[u].exists
     THEN /\ reqs' = [reqs EXCEPT ![r] =
               Done(r, ErrorResp("No document to update"))]
          /\ AppUnchanged
     ELSE /\ facilityQueues' = [facilityQueues EXCEPT ![q] =
               AppLeavePlayers(reqs[r].snapQ, u)]
          /\ users' = [users EXCEPT ![u].currentQueue = NoQueue]
          /\ UNCHANGED app
          /\ reqs' = [reqs EXCEPT ![r] = Done(r, [NoResp EXCEPT !.kind = "ok"])]
  /\ ServerUnchanged

AppJoinHandler(r, ids) ==
  \/ \E q \in ids, u \in Players : StartAppJoin(r, q, u)
  \/ AppJoinRead(r)
  \/ AppJoinCommit(r)

AppLeaveHandler(r, ids) ==
  \/ \E q \in ids, u \in Players : StartAppLeave(r, q, u)
  \/ AppLeaveRead(r)
  \/ AppLeaveCommit(r)

\* the slots that serve queue requests and the slots that serve game requests
QueueSlots == {r \in Req : r % 2 = 1}
GameSlots == {r \in Req : r % 2 = 0}

\* queue requests (for the queues that exist) and game requests served side
\* by side
Next ==
  \/ \E r \in QueueSlots :
        JoinHandler(r, DOMAIN queues) \/ LeaveHandler(r, DOMAIN queues)
  \/ \E r \in GameSlots : CreateHandler(r, MaxMixedGames) \/ EndHandler(r)

Spec == Init /\ [][Next]_vars

\* games started on the game slots and ended from every slot
NextGame ==
  \/ \E r \in GameSlots : CreateHandler(r, MaxGames)
  \/ \E r \in Req : EndHandler(r)

SpecGame == Init /\ [][NextGame]_vars

\* game requests served one at a time while time passes
NextTimed ==
  \/ \E r \in GameSlots : CreateHandler(r, MaxGames) \/ EndHandler(r)
  \/ Tick

SpecTimed == Init /\ [][NextTimed]_vars

\* determineRotation called on its own, on every input within the bounds
QueueOf(ids) ==
  [i \in 1..Len(ids) |->
     [playerId |-> ids[i], position |-> i, notified |-> FALSE]]

RotQueues ==
  { QueueOf([i \in 1..n |-> 10 + i]) : n \in 0..MaxRotQueue }
  \cup { QueueOf([i \in 1..n |-> 11 + n - i]) : n \in 0..MaxRotQueue }

RotInputs ==
  { [winningTeam |-> w, losingTeam |-> l, winnerConsecutiveWins |-> k,
     queuePlayers |-> qp] :
      w \in {<<1, 2>>, <<3, 4>>}, l \in {<<1, 2>>, <<3, 4>>},
      k \in 0..MaxRotWins, qp \in RotQueues }

InitRot ==
  /\ InitStore
  /\ rotIn \in {i \in RotInputs : i.winningTeam # i.losingTeam}
  /\ rotOut = NoRotation
  /\ args = NoArgs
  /\ result = NoResult

Decide ==
  /\ rotOut = NoRotation
  /\ rotOut' = determineRotation(
       [winningTeam |-> rotIn.winningTeam, losingTeam |-> rotIn.losingTeam,
        winnerConsecutiveWins |-> rotIn.winnerConsecutiveWins],
       rotIn.queuePlayers)
  /\ UNCHANGED <<rotIn, args, result, now, reqs>> /\ StoreUnchanged
  /\ AppUnchanged /\ TriggerUnchanged

NextRot == Decide

SpecRot == InitRot /\ [][NextRot]_vars

\* join and leave requests, for any queue id, served concurrently on every
\* slot
NextJL == \E r \in Req : JoinHandler(r, QueueIds) \/ LeaveHandler(r, QueueIds)

SpecJL == Init /\ [][NextJL]_vars

\* join requests and game requests served side by side, with the trigger
\* called for a change of a queue document before the next request step
NextNotify ==
  \/ /\ delivered = queues
     /\ \E r \in QueueSlots : JoinHandler(r, DOMAIN queues)
  \/ /\ delivered = queues
     /\ \E r \in GameSlots : CreateHandler(r, MaxMixedGames) \/ EndHandler(r)
  \/ \E q \in DOMAIN queues : onQueueUpdate(q)

SpecNotify == Init /\ [][NextNotify]_vars

\* games started concurrently on every slot, with every kind of body
NextCreate == \E r \in Req : CreateFrom(r, MaxGames, GameInputs \cup TeamInputs)

SpecCreate == Init /\ [][NextCreate]_vars

\* no call of the given kinds is in flight
NoneInFlight(ops) ==
  \A r \in Req : reqs[r].op \in ops => reqs[r].pc = "done"

\* the server's queues and the app's queues are different collections; the
\* requests to the server are served while the app's queues are empty and
\* untouched, and the app's calls run while the server's queues are
ServerAtRest ==
  /\ NoneInFlight({"join", "leave"})
  /\ \A q \in DOMAIN queues : queues[q] = <<>>

AppAtRest ==
  /\ NoneInFlight({"appJoin", "appLeave"})
  /\ \A q \in DOMAIN facilityQueues : facilityQueues[q] = <<>>

\* join and leave requests to the server, or joinQueue and leaveQueue calls
\* of the mobile app, concurrently on every slot
NextQueues ==
  \/ /\ AppAtRest
     /\ \E r \in Req : JoinHandler(r, QueueIds) \/ LeaveHandler(r, QueueIds)
  \/ /\ ServerAtRest
     /\ \E r \in Req :
          \/ AppJoinHandler(r, {"beginner"})
          \/ AppLeaveHandler(r, {"beginner"})

SpecQueues == Init /\ [][NextQueues]_vars

\* one queue and one court: nine players join one after the other, a game of
\* the first four is started once they have joined, and when all nine have
\* joined it is ended 11-5
ScenarioInput ==
  [players |-> <<1, 2, 3, 4>>, team1 |-> <<1, 2>>, team2 |-> <<3, 4>>]

ScenarioJoin(r) ==
  \/ \E p \in ScenarioPlayers :
        /\ p = Len(queues["q1"]) + 1
        /\ StartJoin(r, "q1", p)
  \/ JoinRead(r)
  \/ JoinCommit(r)
  \/ JoinEmit(r)

ScenarioCreate(r) ==
  \/ /\ Len(queues["q1"]) >= 4
     /\ StartCreate(r, "c1", "q1", ScenarioInput, 1)
  \/ CreateAdd(r)
  \/ CreateCourt(r)
  \/ CreateEmit(r)

ScenarioEnd(r) ==
  \/ /\ Len(queues["q1"]) = 9
     /\ \A s \in Req : Free(s)
     /\ Len(games) = 1 /\ games[1].status = "in_progress"
     /\ StartEnd(r, 1, <<11, 5>>)
  \/ EndGet(r)
  \/ EndUpdate(r)
  \/ EndCourt(r)
  \/ EndMetric(r)
  \/ ProcRead(r)
  \/ ProcWins(r)
  \/ ProcCommit(r)
  \/ NotifyRead(r)
  \/ NotifyWrite(r)
  \/ EndEmit(r)

NextScenario ==
  \/ \E r \in QueueSlots : ScenarioJoin(r)
  \/ \E r \in GameSlots : ScenarioCreate(r) \/ ScenarioEnd(r)

SpecScenario == Init /\ [][NextScenario]_vars

\* ================================================================ claims
\* the player ids of a players array, and the elements of a sequence
Members(players) == {players[i].playerId : i \in 1..Len(players)}
SeqSet(seq) == {seq[i] : i \in 1..Len(seq)}

\* where a player stands in a players array (0: nowhere)
PlaceOf(players, id) ==
  IF id \in Members(players)
  THEN CHOOSE i \in 1..Len(players) : players[i].playerId = id
  ELSE 0

\* the same for the players arrays of the mobile app
Uids(players) == {players[i].uid : i \in 1..Len(players)}

PlaceOfUid(players, uid) ==
  IF uid \in Uids(players)
  THEN CHOOSE i \in 1..Len(players) : players[i].uid = uid
  ELSE 0

\* the request of slot r took a step
Stepped(r) == reqs'[r] # reqs[r]

\* C1: in every queue the position fields are 1..n in list order, whatever
\* joins, leaves and game-end rotations have been served.
C1_PositionsDense ==
  \A q \in DOMAIN queues :
    \A i \in 1..Len(queues[q]) : queues[q][i].position = i

\* a leave has been answered, a rotation has been applied, and players wait
C1_Witness ==
  /\ rotated # {}
  /\ \E r \in Req : reqs[r].op = "leave" /\ reqs[r].pc = "done"
                    /\ reqs[r].resp.kind = "ok"
  /\ \E q \in DOMAIN queues : Len(queues[q]) >= 2

\* C2: no player id is twice in a queue; a join by a player who is in the
\* queue when the join reads it is answered with the already-in-queue error
\* and changes no queue.
C2_NoDuplicateJoin ==
  /\ [](\A q \in DOMAIN queues :
          \A i, j \in 1..Len(queues[q]) :
            queues[q][i].playerId = queues[q][j].playerId => i = j)
  /\ [][\A r \in Req :
          (/\ reqs[r].pc = "j_read"
           /\ reqs[r].queueId \in DOMAIN queues
           /\ reqs[r].playerId \in Members(queues[reqs[r].queueId])
           /\ Stepped(r))
          => (/\ reqs'[r].pc = "done"
              /\ reqs'[r].resp.kind = "error"
              /\ reqs'[r].resp.error = "Player already in queue"
              /\ queues' = queues)]_vars

\* a join was refused because the player was waiting already
C2_Witness ==
  \E r \in Req :
    /\ reqs[r].op = "join" /\ reqs[r].pc = "done"
    /\ reqs[r].resp.error = "Player already in queue"
    /\ \E q \in DOMAIN queues : queues[q] # <<>>

\* C3: concurrent joins and leaves serialize: every queue is the list the
\* committed calls give when run one after the other in commit order, so its
\* players are distinct and numbered 1..length.
C3_Serializable ==
  \A q \in DOMAIN queues :
    /\ queues[q] = serial[q]
    /\ \A i \in 1..Len(queues[q]) : queues[q][i].position = i
    /\ Cardinality(Members(queues[q])) = Len(queues[q])

\* two joins overlap: one has committed and has not answered yet, the other
\* read the queue before that commit and is about to commit
C3_Witness ==
  \E r1, r2 \in Req :
    /\ r1 # r2
    /\ reqs[r1].op = "join" /\ reqs[r1].pc = "j_emit"
    /\ reqs[r2].op = "join" /\ reqs[r2].pc = "j_commit"
    /\ reqs[r2].queueId = reqs[r1].queueId
    /\ reqs[r2].snapQ # queues[reqs[r2].queueId]

\* C4: a game is never completed while its rotation has not been applied to
\* the queue (ending the game, the decision and the queue update are one
\* transaction).
C4_EndGameAtomic ==
  \A g \in 1..Len(games) : games[g].status = "completed" => g \in rotated

\* C5: a court has at most one in_progress game.
C5_OneGamePerCourt ==
  \A c \in CourtIds :
    Cardinality({g \in 1..Len(games) :
                   games[g].courtId = c /\ games[g].status = "in_progress"}) <= 1

\* C6: a request to end a game with equal scores writes nothing (the game
\* stays in_progress without winner and duration, no metric is stored, the
\* queue is unchanged) and is answered with an error.
C6_TieRejected ==
  [][\A r \in Req :
       (/\ reqs[r].op = "end"
        /\ reqs[r].pc \notin {"idle", "done"}
        /\ reqs[r].score[1] = reqs[r].score[2]
        /\ Stepped(r))
       => (/\ games' = games
           /\ metrics' = metrics
           /\ queues' = queues
           /\ reqs'[r].pc = "done" => reqs'[r].resp.kind = "error")]_vars

\* C7: with fewer than 3 consecutive wins, a queue of 8 or more gives FULL,
\* high_demand, all four players off and nobody staying; a shorter queue
\* gives PARTIAL, normal_play, the losers off and the winners staying.
C7_ThresholdRule ==
  (rotOut # NoRotation /\ rotIn.winnerConsecutiveWins < 3) =>
    IF Len(rotIn.queuePlayers) >= 8
    THEN /\ rotOut.rotationType = "FULL"
         /\ rotOut.reason = "high_demand"
         /\ SeqSet(rotOut.playersOff) = {1, 2, 3, 4}
         /\ Len(rotOut.playersOff) = 4
         /\ rotOut.playersStay = <<>>
    ELSE /\ rotOut.rotationType = "PARTIAL"
         /\ rotOut.reason = "normal_play"
         /\ rotOut.playersOff = rotIn.losingTeam
         /\ rotOut.playersStay = rotIn.winningTeam

\* a decision at the threshold itself
C7_Witness ==
  /\ rotOut.rotationType = "FULL" /\ rotOut.reason = "high_demand"
  /\ Len(rotIn.queuePlayers) = 8
  /\ rotIn.winnerConsecutiveWins = 0

\* C8: with 3 or more consecutive wins the decision is FULL with reason
\* consecutive_win_limit at every queue length, also at 8 and above.
C8_WinLimitFirst ==
  (rotOut # NoRotation /\ rotIn.winnerConsecutiveWins >= 3) =>
    /\ rotOut.rotationType = "FULL"
    /\ rotOut.reason = "consecutive_win_limit"

\* both rules apply and the win limit is the reason given
C8_Witness ==
  /\ rotOut.reason = "consecutive_win_limit"
  /\ Len(rotIn.queuePlayers) >= 8
  /\ rotIn.winnerConsecutiveWins = 3

\* C9: nextUp is the front of the queue in queue order: the first min(4, n)
\* player ids for FULL and the first min(2, n) for PARTIAL; an empty queue
\* gives an empty nextUp and still a decision.
C9_NextUpPrefix ==
  rotOut # NoRotation =>
    LET n == Len(rotIn.queuePlayers)
        k == IF rotOut.rotationType = "FULL" THEN 4 ELSE 2
        m == IF k < n THEN k ELSE n
    IN /\ rotOut.rotationType \in {"FULL", "PARTIAL"}
       /\ Len(rotOut.nextUp) = m
       /\ \A i \in 1..m : rotOut.nextUp[i] = rotIn.queuePlayers[i].playerId

\* a full rotation with fewer than four players waiting
C9_Witness ==
  /\ rotOut.rotationType = "FULL"
  /\ Len(rotIn.queuePlayers) = 3
  /\ Len(rotOut.nextUp) = 3

C11_Scenario ==
  \A r \in Req :
    (reqs[r].op = "end" /\ reqs[r].pc = "n_read") =>
      /\ reqs[r].resp.rotation.rotationType = "FULL"
      /\ SeqSet(reqs[r].resp.rotation.playersOff) = {1, 2, 3, 4}
      /\ reqs[r].resp.rotation.nextUp = <<5, 6, 7, 8>>
      /\ queues["q1"] = <<[playerId |-> 9, position |-> 1, notified |-> FALSE]>>
\* C12: a join that succeeds puts the player last and leaves every entry that
\* was there as it was, in the same place; the position it returns is the new
\* length of the queue (server joinQueue and mobile joinQueue).
C12_JoinAppends ==
  [][\A r \in Req :
       /\ (reqs[r].pc = "j_commit" /\ reqs'[r].pc = "j_emit") =>
            LET old == queues[reqs[r].queueId]
                new == queues'[reqs[r].queueId]
            IN /\ reqs[r].playerId \notin Members(old)
               /\ Len(new) = Len(old) + 1
               /\ \A i \in 1..Len(old) : new[i] = old[i]
               /\ new[Len(new)].playerId = reqs[r].playerId
               /\ new[Len(new)].position = Len(new)
               /\ reqs'[r].resp.kind = "ok"
               /\ reqs'[r].resp.position = Len(new)
       /\ (reqs[r].pc = "aj_commit" /\ reqs'[r].pc = "done") =>
            LET old == facilityQueues[reqs[r].queueId]
                new == facilityQueues'[reqs[r].queueId]
            IN /\ reqs[r].playerId \notin Uids(old)
               /\ Len(new) = Len(old) + 1
               /\ \A i \in 1..Len(old) : new[i] = old[i]
               /\ new[Len(new)].uid = reqs[r].playerId
               /\ new[Len(new)].position = Len(new)
               /\ reqs'[r].resp.kind = "ok"
               /\ reqs'[r].resp.position = Len(new)]_vars

\* a server join was answered earlier, and a mobile join has just put a
\* second user behind the first
C12_Witness ==
  \E r1, r2 \in Req :
    /\ reqs[r1].op = "join" /\ reqs[r1].pc = "done"
    /\ reqs[r1].resp.kind = "ok" /\ reqs[r1].resp.position >= 1
    /\ reqs[r2].op = "appJoin" /\ reqs[r2].pc = "done"
    /\ reqs[r2].resp.kind = "ok" /\ reqs[r2].resp.position = 2
    /\ Len(facilityQueues["beginner"]) = 2

\* C13: a leave by a player who is not in the queue is answered with the
\* not-in-queue error and leaves the queue as it is; it never reports success
\* (server leaveQueue and mobile leaveQueue).
C13_LeaveAbsentFails ==
  [][\A r \in Req :
       /\ (/\ reqs[r].pc = "l_read"
           /\ reqs[r].queueId \in DOMAIN queues
           /\ reqs[r].playerId \notin Members(queues[reqs[r].queueId])
           /\ Stepped(r))
          => (/\ reqs'[r].pc = "done"
              /\ reqs'[r].resp.kind = "error"
              /\ reqs'[r].resp.error = "Player not in queue"
              /\ queues' = queues)
       /\ (/\ reqs[r].pc = "al_commit"
           /\ reqs'[r].pc = "done"
           /\ reqs[r].playerId \notin Uids(facilityQueues[reqs[r].queueId]))
          => (/\ reqs'[r].resp.kind = "error"
              /\ facilityQueues' = facilityQueues)]_vars

\* C14: a leave that succeeds takes out the leaving player's entry and nothing
\* else: every other player is still in the queue, the players that remain
\* are in the order they were in, and they are numbered 1..length (server
\* leaveQueue and mobile leaveQueue).
C14_LeaveFrame ==
  [][\A r \in Req :
       /\ (reqs[r].pc = "l_commit" /\ reqs'[r].pc = "l_emit") =>
            LET old == queues[reqs[r].queueId]
                new == queues'[reqs[r].queueId]
            IN /\ Members(new) = Members(old) \ {reqs[r].playerId}
               /\ Len(new) = Len(old) - 1
               /\ \A i \in 1..Len(new) :
                    /\ new[i].position = i
                    /\ new[i].notified
                         = old[PlaceOf(old, new[i].playerId)].notified
               /\ \A i, j \in 1..Len(new) :
                    i < j => PlaceOf(old, new[i].playerId)
                               < PlaceOf(old, new[j].playerId)
       /\ (/\ reqs[r].pc = "al_commit" /\ reqs'[r].pc = "done"
           /\ reqs'[r].resp.kind = "ok") =>
            LET old == facilityQueues[reqs[r].queueId]
                new == facilityQueues'[reqs[r].queueId]
            IN /\ Uids(new) = Uids(old) \ {reqs[r].playerId}
               /\ Len(new) = Cardinality(Uids(new))
               /\ \A i \in 1..Len(new) : new[i].position = i
               /\ \A i, j \in 1..Len(new) :
                    i < j => PlaceOfUid(old, new[i].uid)
                               < PlaceOfUid(old, new[j].uid)]_vars

\* the player in the middle of three has just left the server's queue
C14_Witness ==
  \E r \in Req :
    /\ reqs[r].op = "leave" /\ reqs[r].pc = "l_emit"
    /\ Len(queues[reqs[r].queueId]) = 2
    /\ reqs[r].playerId < queues[reqs[r].queueId][2].playerId
    /\ reqs[r].playerId > queues[reqs[r].queueId][1].playerId
\* C15: a request to end a game that is completed when the request reads it
\* is answered with the already-ended error and changes nothing: the game,
\* the court, the queue and the stored metrics stay as they are.
C15_AlreadyEnded ==
  [][\A r \in Req :
       (/\ reqs[r].pc = "e_get"
        /\ reqs[r].gameId <= Len(games)
        /\ games[reqs[r].gameId].status = "completed"
        /\ Stepped(r))
       => (/\ reqs'[r].pc = "done"
           /\ reqs'[r].resp.kind = "error"
           /\ reqs'[r].resp.error = "Game already ended"
           /\ games' = games
           /\ courts' = courts
           /\ queues' = queues
           /\ metrics' = metrics)]_vars

\* a second request for a game that was ended and rotated has been refused
C15_Witness ==
  \E r \in Req :
    /\ reqs[r].op = "end" /\ reqs[r].pc = "done"
    /\ reqs[r].resp.error = "Game already ended"
    /\ 1 \in rotated
    /\ Len(metrics) = 1

\* C16: once a game is completed its endedAt, duration, score and winner
\* never change again, so the duration on the game is the duration stored in
\* its metric.
C16_CompletedImmutable ==
  /\ [][\A g \in 1..Len(games) :
          games[g].status = "completed" =>
            /\ games'[g].endedAt = games[g].endedAt
            /\ games'[g].duration = games[g].duration
            /\ games'[g].score = games[g].score
            /\ games'[g].winner = games[g].winner]_vars
  /\ [](\A i \in 1..Len(metrics) :
          games[metrics[i].gameId].duration = metrics[i].duration)

\* C17: every game has at most one metric, only a completed game has one,
\* and a completed game that no request is ending any more has exactly one.
C17_OneMetricPerGame ==
  \A g \in 1..Len(games) :
    LET n == Cardinality({i \in 1..Len(metrics) : metrics[i].gameId = g})
    IN /\ n <= 1
       /\ n >= 1 => games[g].status = "completed"
       /\ (/\ games[g].status = "completed"
           /\ \A r \in Req : reqs[r].op = "end" => reqs[r].pc = "done")
          => n = 1

\* C18: a request to start a game is refused with a team-size error exactly
\* when it does not have 4 players and 2 players in each team; a refused
\* request creates no game and leaves the court as it is.
C18_TeamSizeChecked ==
  [][\A r \in Req :
       (Free(r) /\ reqs'[r].op = "create" /\ Stepped(r)) =>
         LET input == reqs'[r].input
             valid == /\ Len(input.players) = 4
                      /\ Len(input.team1) = 2
                      /\ Len(input.team2) = 2
         IN IF valid
            THEN reqs'[r].pc = "c_add"
            ELSE /\ reqs'[r].pc = "done"
                 /\ reqs'[r].resp.kind = "error"
                 /\ reqs'[r].resp.error \in {"Game requires exactly 4 players",
                                              "Invalid team configuration"}
                 /\ games' = games
                 /\ courts' = courts]_vars

\* a start with a team of one was refused while a game is on the court
C18_Witness ==
  \E r \in Req :
    /\ reqs[r].op = "create" /\ reqs[r].pc = "done"
    /\ reqs[r].resp.error = "Invalid team configuration"
    /\ Len(reqs[r].input.team1) = 1
    /\ Len(games) = 1
    /\ courts["c1"] = [status |-> "in_game", currentGame |-> 1]

\* C19: in every game the two teams have 2 members each, are disjoint, and
\* together are the 4 players of the game.
C19_TeamsPartition ==
  \A g \in 1..Len(games) :
    /\ Len(games[g].players) = 4
    /\ Cardinality(SeqSet(games[g].players)) = 4
    /\ Cardinality(SeqSet(games[g].team1)) = 2
    /\ Cardinality(SeqSet(games[g].team2)) = 2
    /\ SeqSet(games[g].team1) \cap SeqSet(games[g].team2) = {}
    /\ SeqSet(games[g].team1) \cup SeqSet(games[g].team2)
         = SeqSet(games[g].players)
\* the number of notifications of one type sent to a player since the player
\* joined
SentSinceJoin(p, type) == notificationLogs[p][type] - memberSince[p][type]

\* C20: since joining, a player in a queue has been sent at most one NEXT_UP
\* and at most one APPROACHING notification.
C20_OncePerMembership ==
  \A q \in DOMAIN queues : \A p \in Members(queues[q]) :
    /\ SentSinceJoin(p, "NEXT_UP") <= 1
    /\ SentSinceJoin(p, "APPROACHING") <= 1

\* ------------------------------------------- a queue that moves up (C21)
\* one queue and one court: MaxMovePlayers players join one after the other,
\* a game of four is started and ended 11-5, and then the players who are
\* left in the queue leave it in any order; the trigger is called for every
\* change of the queue document before the next request step
GameOver == \E g \in 1..Len(games) : games[g].status = "completed"

MoveJoin(r) ==
  \/ \E p \in 1..MaxMovePlayers :
        /\ p = Len(queues["q1"]) + 1
        /\ ~GameOver
        /\ StartJoin(r, "q1", p)
  \/ JoinRead(r)
  \/ JoinCommit(r)
  \/ JoinEmit(r)

MoveLeave(r) ==
  \/ \E p \in 1..MaxMovePlayers :
        /\ GameOver
        /\ \A s \in Req : Free(s)
        /\ \E i \in 1..Len(queues["q1"]) : queues["q1"][i].playerId = p
        /\ StartLeave(r, "q1", p)
  \/ LeaveRead(r)
  \/ LeaveCommit(r)
  \/ LeaveEmit(r)

MoveCreate(r) ==
  \/ /\ Len(queues["q1"]) >= 4
     /\ StartCreate(r, "c1", "q1", ScenarioInput, 1)
  \/ CreateAdd(r)
  \/ CreateCourt(r)
  \/ CreateEmit(r)

MoveEnd(r) ==
  \/ /\ Len(queues["q1"]) = MaxMovePlayers
     /\ \A s \in Req : Free(s)
     /\ Len(games) = 1 /\ games[1].status = "in_progress"
     /\ StartEnd(r, 1, <<11, 5>>)
  \/ EndGet(r)
  \/ EndUpdate(r)
  \/ EndCourt(r)
  \/ EndMetric(r)
  \/ ProcRead(r)
  \/ ProcWins(r)
  \/ ProcCommit(r)
  \/ NotifyRead(r)
  \/ NotifyWrite(r)
  \/ EndEmit(r)

NextMove ==
  \/ /\ delivered = queues
     /\ \E r \in QueueSlots : MoveJoin(r) \/ MoveLeave(r)
  \/ /\ delivered = queues
     /\ \E r \in GameSlots : MoveCreate(r) \/ MoveEnd(r)
  \/ QueueUpdate("q1", MaxMoveLogs)

SpecMove == Init /\ [][NextMove]_vars

\* the position a queue entry records for a player (0: not in the queue)
PositionOf(players, id) ==
  IF id \in Members(players) THEN players[PlaceOf(players, id)].position
  ELSE 0

\* the trigger ran for a change of queue q that moved player p to one of
\* the given positions
MovedTo(q, p, positions) ==
  /\ delivered'[q] # delivered[q]
  /\ p \in Members(delivered[q]) \cap Members(queues[q])
  /\ PositionOf(queues[q], p) # PositionOf(delivered[q], p)
  /\ PositionOf(queues[q], p) \in positions

\* the trigger's run sent player p a notification of the given type
SentNow(p, type) == notificationLogs'[p][type] > notificationLogs[p][type]

\* C21: when the trigger runs for a queue change that moved a player to
\* position 1 or 2 and the player has had no NEXT_UP since joining, it sends
\* the player NEXT_UP (whether or not APPROACHING was sent before); when the
\* change moved a player to position 3 or 4 and the player has had no
\* APPROACHING since joining, it sends APPROACHING.
C21_MoveNotifies ==
  [][\A q \in DOMAIN queues : \A p \in Joiners :
       /\ MovedTo(q, p, {1, 2}) /\ SentSinceJoin(p, "NEXT_UP") = 0
            => SentNow(p, "NEXT_UP")
       /\ MovedTo(q, p, {3, 4}) /\ SentSinceJoin(p, "APPROACHING") = 0
            => SentNow(p, "APPROACHING")]_vars

\* the requests whose webhooks and notifications C22 is about
QueueOrEnd(r) == reqs'[r].op \in {"join", "leave", "end"}

\* the step of slot r emits a webhook event
EmitsWebhook(r) == reqs'[r].webhook # "" /\ reqs'[r].webhook # reqs[r].webhook

\* the step of slot r sends notifications
Notifies(r) == Stepped(r) /\ notificationLogs' # notificationLogs

WinsGame(courtId, team1, team2, winner, status, endedAt) ==
  [NoGame EXCEPT !.courtId = courtId, !.queueId = "q1",
                 !.players = team1 \o team2, !.team1 = team1,
                 !.team2 = team2, !.endedAt = endedAt,
                 !.duration = endedAt, !.score = <<11, 5>>,
                 !.winner = winner, !.status = status]

WinsGames ==
  UNION {
    { WinsGame("c1", <<1, 2>>, <<3, 4>>, "team1", "completed", t),
      WinsGame("c1", <<3, 4>>, <<2, 1>>, "team2", "completed", t),
      WinsGame("c1", <<1, 3>>, <<2, 4>>, "team1", "completed", t),
      WinsGame("c1", <<1, 2>>, <<3, 4>>, "team2", "completed", t),
      WinsGame("c2", <<1, 2>>, <<3, 4>>, "team1", "completed", t) }
    : t \in 1..MaxEndedAt }
  \cup { [WinsGame("c1", <<1, 2>>, <<3, 4>>, "", "in_progress", -1)
            EXCEPT !.duration = -1, !.score = <<>>] }

WinsHistories == UNION {[1..n -> WinsGames] : n \in 0..MaxWinGames}

\* the winning team processGameEnd passes on: two ids of a team of the game
\* that ended
WinsPairs == {<<1, 2>>, <<3, 4>>, <<1, 1>>}

InitWins ==
  /\ InitRest
  /\ games \in WinsHistories
  /\ rotIn = NoRotIn
  /\ rotOut = NoRotation
  /\ args \in {[fn |-> "getConsecutiveWins", playerIds |-> pair,
                 courtId |-> "c1"] : pair \in WinsPairs}
  /\ result = NoResult

CallWins ==
  /\ result = NoResult
  /\ result' = [fn |-> "getConsecutiveWins",
                value |-> getConsecutiveWins(games, args.playerIds,
                                             args.courtId)]
  /\ UNCHANGED <<rotIn, rotOut, args, now, reqs>> /\ StoreUnchanged
  /\ AppUnchanged /\ TriggerUnchanged

NextWins == CallWins

SpecWins == InitWins /\ [][NextWins]_vars

\* the completed games of a court
CompletedOn(courtId) ==
  {g \in 1..Len(games) : games[g].courtId = courtId
                          /\ games[g].status = "completed"}

\* seq lists the three most recent completed games of the court (all of
\* them when there are fewer), newest first
NewestFirst(seq, courtId) ==
  /\ SeqSet(seq) \subseteq CompletedOn(courtId)
  /\ Len(seq) = Min(3, Cardinality(CompletedOn(courtId)))
  /\ Cardinality(SeqSet(seq)) = Len(seq)
  /\ \A i, j \in 1..Len(seq) :
       i < j => games[seq[i]].endedAt >= games[seq[j]].endedAt
  /\ \A g \in CompletedOn(courtId) \ SeqSet(seq) : \A i \in 1..Len(seq) :
       games[g].endedAt <= games[seq[i]].endedAt

\* the recorded winning team of the game is exactly the pair
WonByPair(g, pair) ==
  LET winners == IF games[g].winner = "team1" THEN games[g].team1
                 ELSE games[g].team2
  IN SeqSet(winners) = SeqSet(pair)

\* the length of the longest prefix of seq whose games the pair won
WonPrefix(seq, pair) ==
  CHOOSE k \in 0..Len(seq) :
    /\ \A i \in 1..k : WonByPair(seq[i], pair)
    /\ k < Len(seq) => ~WonByPair(seq[k + 1], pair)

\* C23: getConsecutiveWins returns at most 3, and what it returns is the
\* length of the longest prefix, newest first, of the three most recent
\* completed games of the court whose recorded winning team is exactly the
\* pair (0 when the most recent one was not won by the pair).
C23_LongestWonPrefix ==
  result # NoResult =>
    /\ result.value \in 0..3
    /\ \E seq \in UNION {[1..n -> 1..MaxWinGames] : n \in 0..3} :
         /\ NewestFirst(seq, args.courtId)
         /\ result.value = WonPrefix(seq, args.playerIds)

\* ------------------------------------ prediction service (pure functions)
DEFAULT_GAME_DURATION_SECONDS == 15 * 60
MIN_GAMES_FOR_PREDICTION == 10

\* numbers that are not whole are kept as fractions num / den
Whole(n) == [num |-> n, den |-> 1]

\* Math.exp(-0.05 * i) in ten-thousandths, for i = 0 .. 199 (no query of the
\* service returns more than 200 documents)
ExpScale == 10000

ExpTable ==
  << 10000, 9512, 9048, 8607, 8187, 7788, 7408, 7047, 6703, 6376, 6065, 5769,
     5488, 5220, 4966, 4724, 4493, 4274, 4066, 3867, 3679, 3499, 3329, 3166,
     3012, 2865, 2725, 2592, 2466, 2346, 2231, 2122, 2019, 1920, 1827, 1738,
     1653, 1572, 1496, 1423, 1353, 1287, 1225, 1165, 1108, 1054, 1003, 954,
     907, 863, 821, 781, 743, 707, 672, 639, 608, 578, 550, 523,
     498, 474, 450, 429, 408, 388, 369, 351, 334, 317, 302, 287,
     273, 260, 247, 235, 224, 213, 202, 193, 183, 174, 166, 158,
     150, 143, 136, 129, 123, 117, 111, 106, 101, 96, 91, 87,
     82, 78, 74, 71, 67, 64, 61, 58, 55, 52, 50, 47,
     45, 43, 41, 39, 37, 35, 33, 32, 30, 29, 27, 26,
     25, 24, 22, 21, 20, 19, 18, 17, 17, 16, 15, 14,
     14, 13, 12, 12, 11, 11, 10, 10, 9, 9, 8, 8,
     7, 7, 7, 6, 6, 6, 6, 5, 5, 5, 5, 4,
     4, 4, 4, 4, 3, 3, 3, 3, 3, 3, 2, 2,
     2, 2, 2, 2, 2, 2, 2, 2, 2, 1, 1, 1,
     1, 1, 1, 1, 1, 1, 1, 1, 1, 1, 1, 1,
     1, 1, 1, 1, 1, 1, 1, 0 >>

ExpWeight(i) == ExpTable[i + 1]

\* values.reduce((sum, val, i) => sum + (val * weights[i]), 0), over the
\* values from place lo to place hi (summed by halves)
RECURSIVE WeightedSum(_, _, _)
WeightedSum(values, lo, hi) ==
  IF lo > hi THEN 0
  ELSE IF lo = hi THEN values[lo] * ExpWeight(lo - 1)
  ELSE WeightedSum(values, lo, (lo + hi) \div 2)
         + WeightedSum(values, (lo + hi) \div 2 + 1, hi)

\* weights.reduce((a, b) => a + b, 0), likewise
RECURSIVE WeightSum(_, _)
WeightSum(lo, hi) ==
  IF lo > hi THEN 0
  ELSE IF lo = hi THEN ExpWeight(lo - 1)
  ELSE WeightSum(lo, (lo + hi) \div 2) + WeightSum((lo + hi) \div 2 + 1, hi)

\* durations.reduce((a, b) => a + b, 0)
RECURSIVE SumOf(_)
SumOf(values) ==
  IF values = <<>> THEN 0 ELSE Head(values) + SumOf(Tail(values))

\* every value weighs the same
calculateWeightedAverage_Mean(values) ==
  IF Len(values) = 0 THEN Whole(DEFAULT_GAME_DURATION_SECONDS)
  ELSE [num |-> SumOf(values), den |-> Len(values)]

\* calculateWeightedAverage(values)
calculateWeightedAverage(values) ==
  IF Len(values) = 0 THEN Whole(DEFAULT_GAME_DURATION_SECONDS)
  ELSE [num |-> WeightedSum(values, 1, Len(values)),
        den |-> WeightSum(1, Len(values))]

\* calculateWeightedAverage on its own, on every list of at most MaxSamples
\* of these values
SampleValues == {10, 20, 30}

InitAverage ==
  /\ InitStore
  /\ rotIn = NoRotIn
  /\ rotOut = NoRotation
  /\ args \in {[fn |-> "calculateWeightedAverage", values |-> v] :
                 v \in UNION {[1..n -> SampleValues] : n \in 0..MaxSamples}}
  /\ result = NoResult

CallAverage ==
  /\ result = NoResult
  /\ result' = [fn |-> "calculateWeightedAverage",
                value |-> calculateWeightedAverage(args.values)]
  /\ UNCHANGED <<rotIn, rotOut, args, now, reqs>> /\ StoreUnchanged
  /\ AppUnchanged /\ TriggerUnchanged

NextAverage == CallAverage

SpecAverage == InitAverage /\ [][NextAverage]_vars

\* the sums of the definition, with w[i] = exp(-0.05 * i) in ten-thousandths
ExpW(i) ==
  << 10000, 9512, 9048, 8607, 8187, 7788, 7408, 7047 >>[i + 1]

RECURSIVE SumVW(_, _)
SumVW(v, i) ==
  IF i = Len(v) THEN 0 ELSE v[i + 1] * ExpW(i) + SumVW(v, i + 1)

RECURSIVE SumW(_, _)
SumW(v, i) == IF i = Len(v) THEN 0 ELSE ExpW(i) + SumW(v, i + 1)

\* a fraction lies between two numbers given in thousandths
Between(x, low, high) ==
  low * x.den <= 1000 * x.num /\ 1000 * x.num <= high * x.den

\* what C30 says about every list
WeightedAverageOf(v, x) ==
  /\ x.num = SumVW(v, 0) /\ x.den = SumW(v, 0)
  /\ \E j \in 1..Len(v) : v[j] * x.den <= x.num
  /\ \E k \in 1..Len(v) : x.num <= v[k] * x.den

\* C30 as stated: the result is sum(v[i]*w[i]) / sum(w[i]), lies between the
\* smallest and the largest sample, and is about 19.3 (19.25 to 19.35) for
\* the samples 10, 20, 30.
C30_Original ==
  (result # NoResult /\ args.values # <<>>) =>
    /\ WeightedAverageOf(args.values, result.value)
    /\ args.values = <<10, 20, 30>> => Between(result.value, 19250, 19350)

\* C30: the result is sum(v[i]*w[i]) / sum(w[i]) with w[i] = exp(-0.05*i),
\* lies between the smallest and the largest sample, and is about 19.67
\* (19.66 to 19.67) for the samples 10, 20, 30.
C30_WeightedAverage ==
  (result # NoResult /\ args.values # <<>>) =>
    /\ WeightedAverageOf(args.values, result.value)
    /\ args.values = <<10, 20, 30>> => Between(result.value, 19660, 19670)

\* the average of 10, 20, 30 has been computed
C30_Witness ==
  /\ result # NoResult
  /\ args.values = <<10, 20, 30>>
  /\ result.value.num > 0

\* --------------------------------------- wait-time prediction on its own
\* Math.ceil(a / b) and Math.round(n / d) for whole n >= 0 and d > 0
Ceil(a, b) == (a + b - 1) \div b
Round(n, d) == (n \div d) + (IF 2 * (n % d) >= d THEN 1 ELSE 0)

\* the gameMetrics collection, newest first: `near` records of court c1 at
\* 13 h, then `far` records of court c1 at 20 h, then `other` records of
\* court c2; all of one facility
MetricsDoc(courtId, timeOfDay, duration) ==
  [courtId |-> courtId, facilityId |-> "f1", timeOfDay |-> timeOfDay,
   duration |-> duration]

GameMetrics(near, far, other) ==
  [i \in 1..(near + far + other) |->
     IF i <= near THEN MetricsDoc("c1", 13, 700)
     ELSE IF i <= near + far THEN MetricsDoc("c1", 20, 1000)
     ELSE MetricsDoc("c2", 13, 1300)]

Durations(docs) == [i \in 1..Len(docs) |-> docs[i].duration]

\* where courtId == .. where timeOfDay >= currentHour - 1 .. where
\* timeOfDay <= currentHour + 1 .. orderBy createdAt desc .. limit(50)
ContextualGames(docs, courtId, currentHour) ==
  Slice(SelectSeq(docs, LAMBDA d :
          /\ d.courtId = courtId
          /\ d.timeOfDay >= currentHour - 1
          /\ d.timeOfDay <= currentHour + 1), 50)

\* where courtId == .. orderBy createdAt desc .. limit(100)
AllGames(docs, courtId) ==
  Slice(SelectSeq(docs, LAMBDA d : d.courtId = courtId), 100)

\* where facilityId == .. orderBy createdAt desc .. limit(200)
FacilityGames(docs, facilityId) ==
  Slice(SelectSeq(docs, LAMBDA d : d.facilityId = facilityId), 200)

\* without samples there is no answer
getAverageGameDuration_Strict(docs, courtId, courtExists, currentHour) ==
  IF Len(AllGames(docs, courtId)) >= MIN_GAMES_FOR_PREDICTION
  THEN [error |-> "",
        value |-> calculateWeightedAverage(Durations(AllGames(docs, courtId)))]
  ELSE [error |-> "Not enough data", value |-> Whole(0)]

\* getAverageGameDuration(courtId); the facility of an existing court
\* document is f1
getAverageGameDuration(docs, courtId, courtExists, currentHour) ==
  [error |-> "",
   value |->
     IF Len(ContextualGames(docs, courtId, currentHour))
          >= MIN_GAMES_FOR_PREDICTION
     THEN calculateWeightedAverage(
            Durations(ContextualGames(docs, courtId, currentHour)))
     ELSE IF Len(AllGames(docs, courtId)) >= MIN_GAMES_FOR_PREDICTION
     THEN calculateWeightedAverage(Durations(AllGames(docs, courtId)))
     ELSE IF courtExists
             /\ Len(FacilityGames(docs, "f1")) >= MIN_GAMES_FOR_PREDICTION
     THEN calculateWeightedAverage(Durations(FacilityGames(docs, "f1")))
     ELSE Whole(DEFAULT_GAME_DURATION_SECONDS)]

\* calculateConfidence(courtId)
calculateConfidence(docs, courtId) ==
  IF Len(AllGames(docs, courtId)) >= 100 THEN "high"
  ELSE IF Len(AllGames(docs, courtId)) >= 30 THEN "medium"
  ELSE "low"

\* predictWaitTime(queueId, position) of the server; the queue document
\* names court c1; calculateConfidence is called without await, so the
\* confidence field holds the promise, not the label it resolves to
predictWaitTime(a) ==
  LET docs == GameMetrics(a.near, a.far, a.other)
      avg == getAverageGameDuration(docs, "c1", a.courtExists, a.currentHour)
      gamesUntilUp == Ceil(a.position, 2)
      seconds == [num |-> gamesUntilUp * avg.value.num, den |-> avg.value.den]
  IN IF ~a.queueExists THEN [called |-> TRUE, error |-> "Queue not found"]
     ELSE IF avg.error # "" THEN [called |-> TRUE, error |-> avg.error]
     ELSE [called |-> TRUE, error |-> "",
           estimatedWaitMinutes |-> Round(seconds.num, seconds.den * 60),
           estimatedWaitSeconds |-> Round(seconds.num, seconds.den),
           gamesUntilUp |-> gamesUntilUp,
           averageGameDuration |-> Round(avg.value.num, avg.value.den * 60),
           confidence |-> [promise |-> calculateConfidence(docs, "c1")]]

\* mobile app: the gameSessions of a level in the last 7 days, newest
\* first; the first one has not recorded its duration
GameSessions(n) ==
  [i \in 1..n |-> [durationMs |-> IF i = 1 THEN 0 ELSE 780000]]

\* mobile app: getDefaultDuration(level)
getDefaultDuration(level) ==
  CASE level = "beginner" -> 12
    [] level = "intermediate" -> 15
    [] level = "advanced" -> 18
    [] OTHER -> 15

\* mobile app: getAverageDuration(level), in minutes
getAverageDuration(level, sessions) ==
  LET durations == Durations([i \in 1..Len(Slice(sessions, 50)) |->
                     [duration |-> sessions[i].durationMs]])
      positive == SelectSeq(durations, LAMBDA ms : ms > 0)
  IN IF Len(sessions) = 0 THEN getDefaultDuration(level)
     ELSE IF Len(positive) = 0 THEN getDefaultDuration(level)
     ELSE Round(SumOf(positive), Len(positive) * 60000)

\* mobile app: predictWaitTime(position, avgDurationMinutes, activeCourts);
\* effectiveCourts is kept in tenths
AppPredictWaitTime(position, avgDurationMinutes, activeCourts) ==
  LET playersPerGame == 4
      gamesNeeded == Ceil(position, playersPerGame)
      effectiveTenths == IF activeCourts * 7 > 10 THEN activeCourts * 7 ELSE 10
  IN IF position <= 0
     THEN [called |-> TRUE, gamesNeeded |-> 0, minutes |-> 0]
     ELSE [called |-> TRUE, gamesNeeded |-> gamesNeeded,
           minutes |-> Round(gamesNeeded * avgDurationMinutes * 10,
                             effectiveTenths * 5) * 5]

\* mock data: calculatePrediction(queueLength, position)
calculatePrediction(queueLength, position) ==
  [called |-> TRUE,
   estimatedWaitMinutes |-> Ceil(position, 4) * 15,
   gamesUntilUp |-> Ceil(position, 4),
   averageGameDuration |-> 15,
   confidence |-> IF queueLength < 10 THEN "low"
                  ELSE IF queueLength < 50 THEN "medium" ELSE "high"]

\* the three prediction functions called for one position
SkillLevels == {"beginner", "intermediate", "advanced"}
NotCalled == [called |-> FALSE]

PredictArgs ==
  [fn : {"predict"}, queueExists : BOOLEAN, courtExists : BOOLEAN,
   skillLevel : SkillLevels, position : 0..MaxPosition,
   currentHour : {14, 15}, near : {0, 9, 10}, far : {0, 20, 90},
   other : {0, 10, 100}, sessions : {0, 1, 10}, activeCourts : {1, 2},
   queueLength : {9}]

InitPredict ==
  /\ InitStore
  /\ rotIn = NoRotIn
  /\ rotOut = NoRotation
  /\ args \in PredictArgs
  /\ result = [fn |-> "predict", server |-> NotCalled, mobile |-> NotCalled,
               mock |-> NotCalled]

PredictFrame ==
  /\ UNCHANGED <<rotIn, rotOut, args, now, reqs>> /\ StoreUnchanged
  /\ AppUnchanged /\ TriggerUnchanged

\* GET /predictions/wait-time
CallPredictWaitTime ==
  /\ result.server = NotCalled
  /\ result' = [result EXCEPT !.server = predictWaitTime(args)]
  /\ PredictFrame

\* mobile app: getAverageDuration(level), then predictWaitTime
CallAppPredictWaitTime ==
  /\ result.mobile = NotCalled
  /\ result' = [result EXCEPT !.mobile =
       [averageMinutes |->
          getAverageDuration(args.skillLevel, GameSessions(args.sessions))]
       @@ AppPredictWaitTime(args.position,
            getAverageDuration(args.skillLevel, GameSessions(args.sessions)),
            args.activeCourts)]
  /\ PredictFrame

\* mock data: calculatePrediction
CallCalculatePrediction ==
  /\ result.mock = NotCalled
  /\ result' = [result EXCEPT !.mock =
       calculatePrediction(args.queueLength, args.position)]
  /\ PredictFrame

NextPredict ==
  \/ CallPredictWaitTime
  \/ CallAppPredictWaitTime
  \/ CallCalculatePrediction

SpecPredict == InitPredict /\ [][NextPredict]_vars

\* the server has answered with a prediction
Predicted == result.fn = "predict" /\ result.server.called
               /\ result.server.error = ""

\* the number of stored samples of each tier: court c1 within an hour of
\* now (the records made at 13 h), court c1 at any time, the facility
ContextualCount(a) == IF a.currentHour \in 12..14 THEN a.near ELSE 0
CourtCount(a) == a.near + a.far
FacilityCount(a) == a.near + a.far + a.other

\* the first tier with at least 10 samples (the facility of a court is known
\* from the court document)
ChosenTier(a) ==
  IF ContextualCount(a) >= 10 THEN "contextual"
  ELSE IF CourtCount(a) >= 10 THEN "court"
  ELSE IF a.courtExists /\ FacilityCount(a) >= 10 THEN "facility"
  ELSE "default"

ChosenCount(a) ==
  CASE ChosenTier(a) = "contextual" -> ContextualCount(a)
    [] ChosenTier(a) = "court" -> CourtCount(a)
    [] ChosenTier(a) = "facility" -> FacilityCount(a)
    [] OTHER -> 0

LabelOf(count) ==
  IF count >= 100 THEN "high" ELSE IF count >= 30 THEN "medium" ELSE "low"

\* C24: the confidence of a server prediction (the label its confidence
\* field resolves to) is high when the tier that supplied the average has at
\* least 100 samples, medium when it has at least 30, low otherwise and
\* when the default was used.
C24_ConfidenceByTier ==
  Predicted =>
    result.server.confidence.promise = LabelOf(ChosenCount(args))

\* the samples of the chosen tier, newest first
ChosenSamples(a) ==
  CASE ChosenTier(a) = "contextual" -> [i \in 1..a.near |-> 700]
    [] ChosenTier(a) = "court" ->
         [i \in 1..(a.near + a.far) |-> IF i <= a.near THEN 700 ELSE 1000]
    [] ChosenTier(a) = "facility" ->
         [i \in 1..(a.near + a.far + a.other) |->
            IF i <= a.near THEN 700
            ELSE IF i <= a.near + a.far THEN 1000 ELSE 1300]
    [] OTHER -> <<>>

\* the static default of a skill level, in minutes
StaticDefault(level) ==
  CASE level = "beginner" -> 12
    [] level = "intermediate" -> 15
    [] level = "advanced" -> 18

\* the average duration C25 describes for the server, in whole minutes
TieredMinutes(a) ==
  IF ChosenTier(a) = "default" THEN StaticDefault(a.skillLevel)
  ELSE Round(calculateWeightedAverage(ChosenSamples(a)).num,
             calculateWeightedAverage(ChosenSamples(a)).den * 60)

\* the same for the mobile app, whose one tier is the sessions of the level
\* (all but the first have a duration, of 13 minutes)
AppTieredMinutes(a) ==
  IF a.sessions - 1 >= 10 THEN 13 ELSE StaticDefault(a.skillLevel)

\* C25: the average duration is that of the first tier (court within an
\* hour of now, court, facility) with at least 10 samples, and the static
\* default of the skill level (12, 15, 18 minutes) when no tier has 10.
C25_TieredAverage ==
  /\ Predicted => result.server.averageGameDuration = TieredMinutes(args)
  /\ (result.fn = "predict" /\ result.mobile.called) =>
       result.mobile.averageMinutes = AppTieredMinutes(args)

\* C26: for every position the server predictWaitTime, the mobile
\* predictWaitTime and the mock calculatePrediction count the same number of
\* games until the player's turn.
C26_SameGamesUntilTurn ==
  (Predicted /\ result.mobile.called /\ result.mock.called) =>
    /\ result.server.gamesUntilUp = result.mobile.gamesNeeded
    /\ result.server.gamesUntilUp = result.mock.gamesUntilUp

\* C27: the minutes of a prediction are a non-negative multiple of 5, and
\* (mobile app, one active court) the multiple nearest to games until turn
\* times average duration.
C27_RoundedToFive ==
  /\ Predicted =>
       /\ result.server.estimatedWaitMinutes >= 0
       /\ result.server.estimatedWaitMinutes % 5 = 0
  /\ (result.fn = "predict" /\ result.mobile.called) =>
       /\ result.mobile.minutes >= 0
       /\ result.mobile.minutes % 5 = 0
       /\ args.activeCourts = 1 =>
            LET raw == result.mobile.gamesNeeded * result.mobile.averageMinutes
            IN /\ 2 * result.mobile.minutes <= 2 * raw + 5
               /\ 2 * raw <= 2 * result.mobile.minutes + 5

\* C28: the server's prediction fails exactly when the queue does not
\* exist, with 'Queue not found'; for an existing queue with no stored sample
\* at all, with or without a court document, it is the estimate from the
\* default duration, 15 minutes a game.
C28_NoDataNoError ==
  (result.fn = "predict" /\ result.server.called) =>
    /\ result.server.error # "" <=> ~args.queueExists
    /\ result.server.error # "" => result.server.error = "Queue not found"
    /\ (args.queueExists /\ FacilityCount(args) = 0) =>
         /\ result.server.averageGameDuration = 15
         /\ result.server.estimatedWaitMinutes
              = 15 * ((args.position + 1) \div 2)

\* a prediction was made for an existing queue with no stored sample and no
\* court document
C28_Witness ==
  /\ result.fn = "predict" /\ result.server.called
  /\ args.queueExists /\ ~args.courtExists /\ FacilityCount(args) = 0
  /\ args.position > 0
  /\ result.server.error = "" /\ result.server.estimatedWaitMinutes > 0

\* ------------------------------------------------- two queues (C29)
\* two queue documents; the queue slots serve join and leave requests for
\* q1 while the game slots serve join requests for q2 and start and end a
\* game of queue q2
InitTwo ==
  /\ InitWith({"q1", "q2"})
  /\ games = <<>>
  /\ rotIn = NoRotIn
  /\ rotOut = NoRotation
  /\ args = NoArgs
  /\ result = NoResult

TwoCreate(r) ==
  \/ StartCreate(r, "c1", "q2", ScenarioInput, MaxMixedGames)
  \/ CreateAdd(r)
  \/ CreateCourt(r)
  \/ CreateEmit(r)

TwoEnd(r) ==
  \/ \E g \in 1..MaxMixedGames : StartEnd(r, g, <<11, 5>>)
  \/ EndGet(r)
  \/ EndUpdate(r)
  \/ EndCourt(r)
  \/ EndMetric(r)
  \/ ProcRead(r)
  \/ ProcWins(r)
  \/ ProcCommit(r)
  \/ NotifyRead(r)
  \/ NotifyWrite(r)
  \/ EndEmit(r)

NextTwo ==
  \/ \E r \in QueueSlots : JoinHandler(r, {"q1"}) \/ LeaveHandler(r, {"q1"})
  \/ \E r \in GameSlots : JoinHandler(r, {"q2"}) \/ TwoCreate(r) \/ TwoEnd(r)

SpecTwo == InitTwo /\ [][NextTwo]_vars

\* the slots that serve the queue slot r serves
SameQueueSlots(r) == {s \in Req : s % 2 = r % 2}

\* the attempt of r at its commit step finds a document it read changed
OwnDocumentChanged(r) ==
  \/ queues[reqs[r].queueId] # reqs[r].snapQ
  \/ reqs[r].op = "end" /\ games[reqs[r].gameId] # reqs[r].snapG

\* C29: with the requests for q1 and the requests for q2 served side by
\* side, a step of a join, leave or game-end request changes the player list
\* of no queue but the request's own, and a transaction attempt is abandoned
\* and run again only when a document of its own queue changed under it and
\* another request is served for that same queue: never because of the
\* requests for the other queue.
C29_QueuesIndependent ==
  [][\A r \in Req : Stepped(r) =>
       /\ \A q \in DOMAIN queues :
            q # reqs[r].queueId => queues'[q] = queues[q]
       /\ reqs'[r].retried =>
            /\ OwnDocumentChanged(r)
            /\ SameQueueSlots(r) # {r}
       /\ \A s \in Req \ SameQueueSlots(r) :
            (reqs[s].pc \in {"j_commit", "l_commit", "p_commit"}
               /\ ~OwnDocumentChanged(s)) => ~OwnDocumentChanged(s)']_vars

\* a rotation has taken players off q2 while a request for q1, whose list is
\* not empty, is between its read and its commit
C29_Witness ==
  /\ rotated # {}
  /\ \E r \in Req : /\ reqs[r].op = "end" /\ reqs[r].pc = "done"
                     /\ reqs[r].resp.kind = "ok"
                     /\ reqs[r].resp.updatedQueueLength > 0
  /\ queues["q1"] # <<>>
  /\ \E r \in Req : /\ reqs[r].queueId = "q1"
                     /\ reqs[r].pc \in {"j_commit", "l_commit", "j_emit",
                                        "l_emit"}

\* ------------------------------------------ winning streak (C31)
\* games of the pairs 1,2 and 3,4 on court c1, the next one started when
\* the one before is completed, and ended, with either pair winning, from
\* every slot
StreakScores == {<<11, 5>>, <<5, 11>>}

StreakCreate(r) ==
  \/ /\ \A g \in 1..Len(games) : games[g].status = "completed"
     /\ PendingAdds = 0
     /\ StartCreate(r, "c1", "q1", ScenarioInput, MaxStreakGames)
  \/ CreateAdd(r)
  \/ CreateCourt(r)
  \/ CreateEmit(r)

StreakEnd(r) ==
  \/ \E g \in 1..MaxStreakGames, score \in StreakScores : StartEnd(r, g, score)
  \/ EndGet(r)
  \/ EndUpdate(r)
  \/ EndCourt(r)
  \/ EndMetric(r)
  \/ ProcRead(r)
  \/ ProcWins(r)
  \/ ProcCommit(r)
  \/ NotifyRead(r)
  \/ NotifyWrite(r)
  \/ EndEmit(r)

NextStreak ==
  \/ \E r \in GameSlots : StreakCreate(r)
  \/ \E r \in Req : StreakEnd(r)

SpecStreak == Init /\ [][NextStreak]_vars

\* seq lists the two most recent completed games of the court other than
\* game g (all of them when there are fewer), newest first
EarlierNewestFirst(seq, courtId, g) ==
  LET others == CompletedOn(courtId) \ {g} IN
  /\ SeqSet(seq) \subseteq others
  /\ Len(seq) = Min(2, Cardinality(others))
  /\ Cardinality(SeqSet(seq)) = Len(seq)
  /\ \A i, j \in 1..Len(seq) :
       i < j => games[seq[i]].endedAt >= games[seq[j]].endedAt
  /\ \A h \in others \ SeqSet(seq) : \A i \in 1..Len(seq) :
       games[h].endedAt <= games[seq[i]].endedAt

\* the pair that wins by the score the request carries
WinningPair(r) ==
  IF reqs[r].score[1] > reqs[r].score[2] THEN reqs[r].snapG.team1
  ELSE reqs[r].snapG.team2

\* request r passes from counting the wins to its commit
CountsWins(r) == reqs[r].pc = "p_wins" /\ reqs'[r].pc = "p_commit"

\* C31: the winnerConsecutiveWins an end-game request hands to the rotation
\* decision is one for the game just ended plus the number of back-to-back
\* most recent earlier completed games of the court won by the same pair,
\* capped at 3; with a queue below 8 the decision is PARTIAL for 1 and 2 and
\* FULL with consecutive_win_limit for 3.
C31_StreakCountsThisGame ==
  [][\A r \in Req : CountsWins(r) =>
       /\ \E seq \in UNION {[1..n -> 1..MaxStreakGames] : n \in 0..2} :
            /\ EarlierNewestFirst(seq, reqs[r].snapG.courtId, reqs[r].gameId)
            /\ reqs'[r].wins = 1 + WonPrefix(seq, WinningPair(r))
       /\ (reqs'[r].wins \in {1, 2} /\ Len(reqs[r].snapQ) < 8)
            => reqs'[r].rotation.rotationType = "PARTIAL"
       /\ reqs'[r].wins = 3
            => /\ reqs'[r].rotation.rotationType = "FULL"
               /\ reqs'[r].rotation.reason = "consecutive_win_limit"]_vars

\* ------------------------------------ notifyNextPlayers and joins (C32)
\* the player ids of a queue in list order
IdsInOrder(q) == [i \in 1..Len(queues[q]) |-> queues[q][i].playerId]

\* request r performs the update of notifyNextPlayers
WritesNotified(r) == reqs[r].pc = "n_write" /\ reqs'[r].pc # "n_write"

\* C32: the update notifyNextPlayers makes leaves the members of the queue and
\* their order as the committed joins, leaves and rotations made them: it
\* drops no player and brings none back, whatever was committed between its
\* read and its write.
C32_NotifyKeepsMembers ==
  [][\A r \in Req : WritesNotified(r) =>
       \A q \in DOMAIN queues : IdsInOrder(q)' = IdsInOrder(q)]_vars

\* --------------------------------------- one game ended twice (C33)
\* players join q1 in order, a game of the first four is started on c1, and
\* then each slot sends one request to end that game 11-5; no join and no
\* game is started once an end request has been sent
EndSent == \E r \in Req : reqs[r].op = "end"

TwiceJoin(r) ==
  \/ \E p \in 1..MaxTwicePlayers :
        /\ ~EndSent
        /\ p = Len(queues["q1"]) + 1
        /\ StartJoin(r, "q1", p)
  \/ JoinRead(r)
  \/ JoinCommit(r)
  \/ JoinEmit(r)

TwiceCreate(r) ==
  \/ /\ ~EndSent
     /\ Len(queues["q1"]) >= 4
     /\ StartCreate(r, "c1", "q1", ScenarioInput, 1)
  \/ CreateAdd(r)
  \/ CreateCourt(r)
  \/ CreateEmit(r)

TwiceEnd(r) ==
  \/ /\ reqs[r].op # "end"
     /\ Len(games) = 1
     /\ StartEnd(r, 1, <<11, 5>>)
  \/ EndGet(r)
  \/ EndUpdate(r)
  \/ EndCourt(r)
  \/ EndMetric(r)
  \/ ProcRead(r)
  \/ ProcWins(r)
  \/ ProcCommit(r)
  \/ NotifyRead(r)
  \/ NotifyWrite(r)
  \/ EndEmit(r)

NextTwice == \E r \in Req : TwiceJoin(r) \/ TwiceCreate(r) \/ TwiceEnd(r)

SpecTwice == Init /\ [][NextTwice]_vars

\* the end-game requests whose rotation has been committed to the queue
\* (each slot sends one, and keeps its response)
Applied == {r \in Req : reqs[r].op = "end" /\ reqs[r].resp.kind = "ok"}

\* the number of players the committed rotations of the requests in S took
\* off the queue
RECURSIVE CalledUp(_)
CalledUp(S) ==
  IF S = {} THEN 0
  ELSE LET r == CHOOSE x \in S : TRUE
       IN Len(reqs[r].resp.rotation.nextUp) + CalledUp(S \ {r})

\* C33: the end-game requests for one game commit its rotation at most
\* once, and together they take at most one group off the queue: at most 4
\* players when a rotation was FULL, at most 2 otherwise.
C33_RotatedOnce ==
  /\ Cardinality(Applied) <= 1
  /\ CalledUp(Applied)
       <= (IF \E r \in Applied : reqs[r].resp.rotation.rotationType = "FULL"
           THEN 4 ELSE 2)

\* ---------------------------------------- playing and waiting (C34)
\* C34: a player of an in_progress game is no entry of the queue the game
\* belongs to, and the nextUp an end-game request decides on holds no player
\* of the game it ends.
C34_PlayingNotWaiting ==
  /\ \A g \in 1..Len(games) :
       (games[g].status = "in_progress" /\ games[g].queueId \in DOMAIN queues)
         => SeqSet(games[g].players) \cap Members(queues[games[g].queueId]) = {}
  /\ \A r \in Req :
       (reqs[r].op = "end" /\ reqs[r].pc = "p_commit")
         => SeqSet(reqs[r].rotation.nextUp) \cap SeqSet(reqs[r].snapG.players) = {}

\* ------------------------------------------- court and games (C35)
\* the in_progress games of a court
InProgressOn(c) ==
  {g \in 1..Len(games) : games[g].courtId = c /\ games[g].status = "in_progress"}

\* C35: when no request is being served, a court with an in_progress game
\* has status in_game and currentGame is the id of such a game; a court
\* without one has status available and no currentGame.
C35_CourtAgrees ==
  (\A r \in Req : Free(r)) =>
    \A c \in CourtIds :
      IF InProgressOn(c) # {}
      THEN courts[c].status = "in_game" /\ courts[c].currentGame \in InProgressOn(c)
      ELSE courts[c].status = "available" /\ courts[c].currentGame = 0

\* ------------------------- join with failing webhook or prediction (C36)
\* POST /queues/:queueId/join after joinQueue has returned: emitWebhook and
\* predictWaitTime are awaited inside the handler's try block. emitWebhook
\* rejects when its webhooks query fails or signPayload throws (only fetch
\* is wrapped in a try of its own), predictWaitTime when one of its reads
\* fails; the catch block then answers 400 with the error's message.
JoinRespond(r, webhookThrows, predictThrows) ==
  /\ reqs[r].pc = "j_emit"
  /\ reqs' = [reqs EXCEPT ![r] =
       IF webhookThrows
       THEN [Done(r, ErrorResp("webhook failed")) EXCEPT
               !.committed = reqs[r].committed]
       ELSE IF predictThrows
       THEN Emitted(r, "queue.player_joined", ErrorResp("prediction failed"))
       ELSE Emitted(r, "queue.player_joined", reqs[r].resp)]
  /\ StoreUnchanged /\ ElseUnchanged /\ UNCHANGED now

\* join requests while the webhook registry and the metrics store may fail
FailJoin(r) ==
  \/ \E q \in QueueIds, p \in Players : StartJoin(r, q, p)
  \/ JoinRead(r)
  \/ JoinCommit(r)
  \/ \E webhookThrows, predictThrows \in BOOLEAN :
        JoinRespond(r, webhookThrows, predictThrows)

NextFail == \E r \in Req : FailJoin(r) \/ LeaveHandler(r, QueueIds)

SpecFail == Init /\ [][NextFail]_vars

\* C36: a join request that is answered with an error has not added the
\* player to the queue: its transaction did not commit.
C36_ErrorMeansNotJoined ==
  \A r \in Req :
    (reqs[r].op = "join" /\ reqs[r].pc = "done" /\ reqs[r].resp.kind = "error")
      => ~reqs[r].committed

\* ------------------------------------ mobile currentQueue record (C37)
\* joinQueue and leaveQueue calls of the mobile app on the queues of the
\* facility, made from the queue slots
NextApp ==
  \E r \in QueueSlots :
    \/ AppJoinHandler(r, FacilityQueueIds)
    \/ AppLeaveHandler(r, FacilityQueueIds)

SpecApp == Init /\ [][NextApp]_vars

\* the queues of the facility that hold user u
QueuesHolding(u) ==
  {q \in DOMAIN facilityQueues : u \in Uids(facilityQueues[q])}

\* C37: a user's currentQueue is set exactly when the user is an entry of
\* some queue of the facility, and then it names a queue that holds the user,
\* at a place no later than the position the record took at the join.
C37_CurrentQueueAgrees ==
  \A u \in Players :
    /\ users[u].currentQueue # NoQueue <=> QueuesHolding(u) # {}
    /\ users[u].currentQueue # NoQueue =>
         /\ users[u].currentQueue.queueId \in QueuesHolding(u)
         /\ PlaceOfUid(facilityQueues[users[u].currentQueue.queueId], u)
              <= users[u].currentQueue.position

\* --------------------------- mobile app: App queue subscription (C38)
\* the uid of the user signed in on the phone
AppUid == 1

\* the callback's loop over the queues, sorted beginner, intermediate:
\* players.find(p => p.uid === user.uid) of the first queue that has the
\* user, and its position (0 when no queue has the user)
FoundPosition(snapshot, uid) ==
  LET entryOf(q) == snapshot[q][CHOOSE i \in 1..Len(snapshot[q]) :
                                  snapshot[q][i].uid = uid]
  IN IF InThisQueue(snapshot["beginner"], uid)
     THEN entryOf("beginner").position
     ELSE IF InThisQueue(snapshot["intermediate"], uid)
     THEN entryOf("intermediate").position
     ELSE 0

\* onAuthChange: setUser(authUser); user changes, so the effect with the
\* dependency list [user] runs and subscribes with a callback that closes
\* over lastNotifiedPosition and userQueue of that render
AppSignIn ==
  /\ app.user = 0
  /\ app' = [app EXCEPT !.user = AppUid, !.subscribed = TRUE,
                        !.closure = [lastNotifiedPosition |-> app.lastNotifiedPosition,
                                     inQueue |-> app.inQueue]]
  /\ UNCHANGED <<facilityQueues, users, reqs>> /\ ServerUnchanged

\* the onSnapshot listener calls the callback with the queues as they are
AppSnapshot ==
  /\ app.subscribed
  /\ app.seen # facilityQueues
  /\ app.scheduled[1] + app.scheduled[2] < MaxScheduled
  /\ LET newPosition == FoundPosition(facilityQueues, app.user)
         found == newPosition # 0
         notify == /\ found
                   /\ newPosition <= 2
                   /\ app.closure.lastNotifiedPosition # newPosition
         clear == ~found /\ app.closure.inQueue
     IN app' = [app EXCEPT
          !.seen = facilityQueues,
          !.scheduled = IF notify THEN [@ EXCEPT ![newPosition] = @ + 1] ELSE @,
          !.lastNotifiedPosition =
             IF notify THEN newPosition ELSE IF clear THEN 0 ELSE @,
          !.inQueue = IF found THEN TRUE ELSE IF clear THEN FALSE ELSE @,
          !.position = IF found THEN newPosition ELSE IF clear THEN 0 ELSE @]
  /\ UNCHANGED <<facilityQueues, users, reqs>> /\ ServerUnchanged

\* the phone's App component while users join and leave the beginner queue
NextSub ==
  \/ AppSignIn
  \/ AppSnapshot
  \/ \E r \in QueueSlots :
        AppJoinHandler(r, {"beginner"}) \/ AppLeaveHandler(r, {"beginner"})

SpecSub == Init /\ [][NextSub]_vars

\* the position the queues give the phone's user is p
StandsAt(p) ==
  \E q \in DOMAIN facilityQueues : \E i \in 1..Len(facilityQueues[q]) :
    /\ facilityQueues[q][i].uid = app.user
    /\ facilityQueues[q][i].position = p

\* C38: a local notification is scheduled for position p only when the
\* user stands at p, p is 1 or 2, and p is not the position last notified;
\* so snapshots that show the user at the same position schedule one
\* notification.
C38_NotifiedOncePerPosition ==
  [][\A p \in {1, 2} :
       app'.scheduled[p] > app.scheduled[p] =>
         StandsAt(p) /\ app.lastNotifiedPosition # p]_vars
====
